---- MODULE Spec2Model ----
(***************************************************************************)
(* Gopher2600: the cycle engine.                                           *)
(*                                                                         *)
(*   hardware/vcs.go       VCS.Step: one CPU instruction, cycleVCS per CPU *)
(*                         cycle (RIOT once, TIA three times), WSYNC drain *)
(*   hardware/tia/step.go  TIA.Step: one color clock                       *)
(*                                                                         *)
(* The phase clock, the HSYNC polycounter, the delay queue ("future"), the *)
(* register handlers (UpdateTIA, Video.Update...), the television and the  *)
(* CPU core are not among the source files; they are modelled from the     *)
(* specification and from the comments of step.go, and are marked so in    *)
(* the model map.                                                          *)
(***************************************************************************)
EXTENDS Integers, Sequences, FiniteSets, TLC

VARIABLES tia, vcs, mc, dbg, ctl, lz, dg, il, pt, pa, tc, pi, cm, sd

vars == <<tia, vcs, mc, dbg, ctl, lz, dg, il, pt, pa, tc, pi, cm, sd>>

\* what the color clocks of the TIA and the cycles of VCS.Step leave alone:
\* the CPU's registers and the cartridge, the debugger's view of memory and
\* the hand controller
others == <<mc, dbg, ctl, lz, dg, il, pt, pa, tc, pi, cm, sd>>

\* what is left alone by the calls on the console, by the debugger's peeks
\* and pokes, by the hand controller, and by the lazy values of the GUI
notConsole == <<dbg, ctl, lz, dg, il, pt, pa, tc, pi, cm, sd>>

notDbg == <<tia, vcs, mc, ctl, lz, dg, il, pt, pa, tc, pi, cm, sd>>

notCtl == <<tia, vcs, mc, dbg, lz, dg, il, pt, pa, tc, pi, cm, sd>>

notLz == <<tia, vcs, mc, dbg, ctl, dg, il, pt, pa, tc, pi, cm, sd>>

notDg == <<tia, vcs, mc, dbg, ctl, lz, il, pt, pa, tc, pi, cm, sd>>

notIl == <<tia, vcs, mc, dbg, ctl, lz, dg, pt, pa, tc, pi, cm, sd>>

notPt == <<tia, vcs, mc, dbg, ctl, lz, dg, il, pa, tc, pi, cm, sd>>

notPa == <<tia, vcs, mc, dbg, ctl, lz, dg, il, pt, tc, pi, cm, sd>>

notTc == <<tia, vcs, mc, dbg, ctl, lz, dg, il, pt, pa, pi, cm, sd>>

notPi == <<tia, vcs, mc, dbg, ctl, lz, dg, il, pt, pa, tc, cm, sd>>

notCm == <<tia, vcs, mc, dbg, ctl, lz, dg, il, pt, pa, tc, pi, sd>>

notSd == <<tia, vcs, mc, dbg, ctl, lz, dg, il, pt, pa, tc, pi, cm>>

(***************************************************************************)
(* Bounds of the model.                                                    *)
(***************************************************************************)
\* the instructions after a reset whose cycles are counted
MaxCounted == 3

\* the longest instruction the modelled CPU executes, in CPU cycles
MaxInstrCycles == 7

(***************************************************************************)
(* Program constants.                                                      *)
(***************************************************************************)
\* step.go:73
hsyncDelay == 3
delayPlayfieldWrite_Short == 5 - 1

\* video delays (package video)
delayPlayfieldWrite == 5
\* television.VideoBlack: the signal that is no colour
VideoBlack == -1

\* the HSYNC counter resets itself "after 57 counts", one count per four
\* color clocks: "a period of 57 counts or 228 CLK" (step.go:83-86)
HsyncCounts == 57
ScanlineClocks == HsyncCounts * 4

(***************************************************************************)
(* The TIA registers the model writes, one or two for each handler of      *)
(* step.go, and UNDEF for an address of the TIA page no handler knows.     *)
(***************************************************************************)
HandlerOrder ==
    << "UpdateTIA", "UpdatePlayfield", "UpdateSpritePositioning", "UpdateColor",
       "UpdateSpriteHMOVE", "UpdateSpriteVariations", "UpdateSpritePixels",
       "Audio.UpdateRegisters" >>

Recognises(h, reg) ==
    CASE h = "UpdateTIA"               -> reg \in {"VSYNC", "VBLANK", "WSYNC", "RSYNC", "HMOVE"}
      [] h = "UpdatePlayfield"         -> reg \in {"PF0", "PF1", "PF2"}
      [] h = "UpdateSpritePositioning" -> reg \in {"RESP0", "RESP1", "RESM0", "RESM1", "RESBL"}
      [] h = "UpdateColor"             -> reg \in {"COLUP0", "COLUP1", "COLUPF", "COLUBK"}
      [] h = "UpdateSpriteHMOVE"       -> reg \in {"HMP0", "HMP1", "HMM0", "HMM1", "HMBL", "HMCLR"}
      [] h = "UpdateSpriteVariations"  -> reg \in {"NUSIZ0", "NUSIZ1", "REFP0", "REFP1", "CTRLPF"}
      [] h = "UpdateSpritePixels"      -> reg \in {"GRP0", "GRP1", "ENAM0", "ENAM1", "ENABL"}
      [] h = "Audio.UpdateRegisters"   -> reg \in {"AUDC0", "AUDC1", "AUDF0", "AUDF1", "AUDV0", "AUDV1"}
      [] OTHER -> FALSE

\* memory.ChipData of an empty inbox
NoData == [name |-> "", value |-> 0]

(***************************************************************************)
(* Phase clock (pclk) and HSYNC counter.                                   *)
(***************************************************************************)
\* phases: 0 rising Phi1, 1 falling Phi1, 2 rising Phi2, 3 falling Phi2
PclkTick(p) == (p + 1) % 4

Phi2(p) == p = 2

(***************************************************************************)
(* The delay queue: tia.Delay.                                             *)
(* An event scheduled with a delay of n is fired by the tick that finds    *)
(* its remaining count at zero, that is after n ticks have counted it      *)
(* down: an hsync event (scheduled after the tick of its Step, with        *)
(* hsyncDelay = 3) fires 4 color clocks after its decode, "delayed by 4    *)
(* CLK" (step.go:76-78, 83-86).                                            *)
(***************************************************************************)
Event(n, label, payload, value) ==
    [remaining |-> n, label |-> label, payload |-> payload, value |-> value]

Schedule(t, n, label, payload, value) ==
    LET Other(e) == e.label # label
    IN  [t EXCEPT !.Delay = Append(SelectSeq(t.Delay, Other), Event(n, label, payload, value))]

\* the payloads: the functions the events of step.go carry
newScanline(t) ==
    [t EXCEPT !.wsync = FALSE, !.hblank = TRUE, !.sig.HSyncSimple = TRUE]

futureResetHSYNC(t) == [t EXCEPT !.sig.HSync = FALSE]

futureResetColorBurst(t) == [t EXCEPT !.sig.CBurst = FALSE]

futureResetHBlank(t) == [t EXCEPT !.hblank = FALSE]

futurePlayfield(t, v) == [t EXCEPT !.pf = v]

futureRsync(t) == [newScanline(t) EXCEPT !.rsyncEvent = FALSE]

Payload(t, e) ==
    LET u == [t EXCEPT !.fired = Append(t.fired, e.label)]
    IN  CASE e.payload = "newScanline"            -> newScanline(u)
          [] e.payload = "_futureResetHSYNC"      -> futureResetHSYNC(u)
          [] e.payload = "_futureResetColorBurst" -> futureResetColorBurst(u)
          [] e.payload = "_futureResetHBlank"     -> futureResetHBlank(u)
          [] e.payload = "playfield"              -> futurePlayfield(u, e.value)
          [] e.payload = "rsync"                  -> futureRsync(u)
          [] OTHER -> u

RECURSIVE FireAll(_, _)
FireAll(t, due) ==
    IF due = << >> THEN t ELSE FireAll(Payload(t, Head(due)), Tail(due))

DelayTick(t) ==
    LET Due(e) == e.remaining = 0
        Waiting(e) == e.remaining # 0
        rest == SelectSeq(t.Delay, Waiting)
        counted == [i \in 1..Len(rest) |-> [rest[i] EXCEPT !.remaining = @ - 1]]
    IN  FireAll([t EXCEPT !.Delay = counted], SelectSeq(t.Delay, Due))

(***************************************************************************)
(* The register handlers.  Each is offered the write only while            *)
(* serviceMemory is still true and answers whether the write is still to   *)
(* be serviced, i.e. whether it did not recognise the register.            *)
(***************************************************************************)
UpdateTIA(t) ==
    CASE t.data.name = "WSYNC" -> [t EXCEPT !.wsync = TRUE]
      [] t.data.name = "RSYNC" ->
            Schedule([t EXCEPT !.hsync = 0, !.rsyncEvent = TRUE],
                     hsyncDelay, "RSYNC", "rsync", 0)
      [] t.data.name = "HMOVE" ->
            [t EXCEPT !.hmoveLatch = (@ \/ t.hblank), !.hmoveCt = 15]
      [] OTHER -> t

UpdatePlayfield(t) ==
    IF Recognises("UpdatePlayfield", t.data.name)
    THEN Schedule(t, delayPlayfieldWrite, "playfield", "playfield", t.data.value)
    ELSE t

Handle(h, t) ==
    CASE h = "UpdateTIA"       -> UpdateTIA(t)
      [] h = "UpdatePlayfield" -> UpdatePlayfield(t)
      [] OTHER -> t

Offer_Unguarded(t, h) ==
    [Handle(h, t) EXCEPT !.offered = Append(t.offered, h),
                          !.svc = ~Recognises(h, t.data.name)]

\* if serviceMemory { serviceMemory = handler(memoryData) }
Offer(t, h) ==
    IF t.svc
    THEN [Handle(h, t) EXCEPT !.offered = Append(t.offered, h),
                               !.svc = ~Recognises(h, t.data.name)]
    ELSE t

\* tia.mem.ChipRead(): takes the pending write out of the inbox
ChipRead(t) ==
    [t EXCEPT !.chipReads = @ + 1,
              !.svc = (t.mem # NoData),
              !.data = t.mem,
              !.mem = NoData]

(***************************************************************************)
(* TIA.Step, sub-step by sub-step (step.go:33-229).                        *)
(***************************************************************************)
\* the locals of one call: serviceMemory (the argument), memoryData
StepEntry(t, serviceMemory) ==
    [t EXCEPT !.smArg = serviceMemory,
              !.svc = serviceMemory, !.data = NoData, !.order = << >>,
              !.offered = << >>, !.chipReads = 0, !.fired = << >>]

Mark(t, label) == [t EXCEPT !.order = Append(t.order, label)]

\* step.go:39-50
ServiceTIAMemory(t) ==
    LET r == IF t.svc THEN ChipRead(t) ELSE t
    IN  Offer(Offer(Mark(r, "A"), "UpdateTIA"), "UpdatePlayfield")

\* step.go:52-53
TickPhaseClock(t) == Mark([t EXCEPT !.pclk = PclkTick(@)], "pclk")

\* step.go:55-56
TickDelay(t) == DelayTick(Mark(t, "delay"))

HsyncCase57_NoReset(t) == [t EXCEPT !.hmoveLatch = FALSE]

HsyncCase57_KeepLatch(t) == [t EXCEPT !.hsync = 0]

\* step.go:80-97
HsyncCase57(t) == [t EXCEPT !.hsync = 0, !.hmoveLatch = FALSE]

HsyncCase56_Early(t) ==
    IF ~t.rsyncEvent THEN Schedule(t, hsyncDelay - 1, "RESET", "newScanline", 0) ELSE t

HsyncCase56_Inverted(t) ==
    IF t.rsyncEvent THEN Schedule(t, hsyncDelay, "RESET", "newScanline", 0) ELSE t

\* step.go:99-104
HsyncCase56(t) ==
    IF ~t.rsyncEvent THEN Schedule(t, hsyncDelay, "RESET", "newScanline", 0) ELSE t

\* step.go:106-112
HsyncCase4(t) == [t EXCEPT !.sig.HSync = TRUE]

\* step.go:114-116
HsyncCase8(t) == Schedule(t, hsyncDelay, "RHS (TV)", "_futureResetHSYNC", 0)

\* step.go:118-120
HsyncCase12(t) == Schedule(t, hsyncDelay, "RCB (TV)", "_futureResetColorBurst", 0)

\* count 16 schedules nothing
HsyncCase16_Never(t) == t

\* step.go:139-143
HsyncCase16(t) ==
    IF ~t.hmoveLatch THEN Schedule(t, hsyncDelay, "HRB", "_futureResetHBlank", 0) ELSE t

HsyncCase18_Unconditional(t) ==
    Schedule(t, hsyncDelay, "LHRB", "_futureResetHBlank", 0)

\* step.go:147-151
HsyncCase18(t) ==
    IF t.hmoveLatch THEN Schedule(t, hsyncDelay, "LHRB", "_futureResetHBlank", 0) ELSE t

TickHsync_WrapAt56(t) ==
    IF Phi2(t.pclk)
    THEN LET u == Mark([t EXCEPT !.hsync = @ + 1], "hsync")
         IN  CASE u.hsync = 56 -> HsyncCase57(u)
               [] u.hsync = 4  -> HsyncCase4(u)
               [] u.hsync = 8  -> HsyncCase8(u)
               [] u.hsync = 12 -> HsyncCase12(u)
               [] u.hsync = 16 -> HsyncCase16(u)
               [] u.hsync = 18 -> HsyncCase18(u)
               [] OTHER -> u
    ELSE t

\* step.go:68-153
TickHsync(t) ==
    IF Phi2(t.pclk)
    THEN LET u == Mark([t EXCEPT !.hsync = @ + 1], "hsync")
         IN  CASE u.hsync = 57 -> HsyncCase57(u)
               [] u.hsync = 56 -> HsyncCase56(u)
               [] u.hsync = 4  -> HsyncCase4(u)
               [] u.hsync = 8  -> HsyncCase8(u)
               [] u.hsync = 12 -> HsyncCase12(u)
               [] u.hsync = 16 -> HsyncCase16(u)
               [] u.hsync = 18 -> HsyncCase18(u)
               [] OTHER -> u
    ELSE t

\* step.go:164-169
ServiceVideoMemory(t) ==
    Offer(Offer(Mark(t, "B"), "UpdateSpritePositioning"), "UpdateColor")

\* step.go:171-178: Video.Tick(!hblank, isHmove, hmoveCt)
TickVideo(t) ==
    Mark([t EXCEPT !.tick = [visible |-> ~t.hblank, isHmove |-> Phi2(t.pclk),
                             hmoveCt |-> t.hmoveCt]], "video")

AdjustHmoveCt_Wrapping(t) ==
    Mark(IF Phi2(t.pclk) THEN [t EXCEPT !.hmoveCt = (@ - 1) % 256] ELSE t, "hmove")

\* step.go:180-185
AdjustHmoveCt(t) ==
    Mark(IF Phi2(t.pclk) /\ t.hmoveCt # 255
         THEN [t EXCEPT !.hmoveCt = (@ - 1) % 256]
         ELSE t, "hmove")

\* Video.Pixel(): the resolved colour and debug colour; the playfield shows
\* where its working register has bits set
VideoPixel(t) ==
    IF t.pf # 0 THEN [pixelColor |-> 14, debugColor |-> 3]
                ELSE [pixelColor |-> 0, debugColor |-> 1]

\* television.ColorSignal(c): a widening of the 8-bit colour to the signal
\* type, which also holds the negative VideoBlack
ColorSignal(c) == c

ResolvePixel_BlankBoth(t) ==
    LET px == VideoPixel(t)
    IN  Mark([t EXCEPT !.sig.AltPixel = IF t.hblank THEN VideoBlack ELSE px.debugColor,
                       !.sig.Pixel = IF t.hblank THEN VideoBlack
                                     ELSE ColorSignal(px.pixelColor)], "pixel")

\* step.go:187-197
ResolvePixel(t) ==
    LET px == VideoPixel(t)
    IN  Mark([t EXCEPT !.sig.AltPixel = px.debugColor,
                       !.sig.Pixel = IF t.hblank THEN VideoBlack
                                     ELSE ColorSignal(px.pixelColor)], "pixel")

\* step.go:199-210
ServiceLateMemory(t) ==
    Offer(Offer(Offer(Offer(Mark(t, "C"), "UpdateSpriteHMOVE"),
        "UpdateSpriteVariations"), "UpdateSpritePixels"), "Audio.UpdateRegisters")

SendSignal_NoTolerance(t, tvres) ==
    LET s == Mark([t EXCEPT !.sent = t.sig, !.tvres = tvres], "signal")
    IN  IF tvres # "nil"
        THEN [s EXCEPT !.rdy = ~s.wsync, !.err = tvres]
        ELSE [s EXCEPT !.sig.HSyncSimple = FALSE, !.rdy = ~s.wsync, !.err = "nil"]

\* step.go:215-228: tv.Signal(sig) answers tvres
SendSignal(t, tvres) ==
    LET s == Mark([t EXCEPT !.sent = t.sig, !.tvres = tvres], "signal")
    IN  IF tvres # "nil" /\ tvres # "TVOutOfSpec"
        THEN [s EXCEPT !.rdy = ~s.wsync, !.err = tvres]
        ELSE [s EXCEPT !.sig.HSyncSimple = FALSE, !.rdy = ~s.wsync, !.err = "nil"]

TIAStep_VideoBeforeDelay(t, serviceMemory, tvres) ==
    SendSignal(ServiceLateMemory(ResolvePixel(AdjustHmoveCt(
        ServiceVideoMemory(TickHsync(TickDelay(TickVideo(TickPhaseClock(
            ServiceTIAMemory(StepEntry(t, serviceMemory)))))))))), tvres)

\* step.go:33-229
TIAStep(t, serviceMemory, tvres) ==
    SendSignal(ServiceLateMemory(ResolvePixel(AdjustHmoveCt(TickVideo(
        ServiceVideoMemory(TickHsync(TickDelay(TickPhaseClock(
            ServiceTIAMemory(StepEntry(t, serviceMemory)))))))))), tvres)

(***************************************************************************)
(* Construction.                                                           *)
(***************************************************************************)
InitSig ==
    [HSync |-> FALSE, CBurst |-> FALSE, HSyncSimple |-> FALSE,
     Pixel |-> VideoBlack, AltPixel |-> 0]

\* the most HBlank-off events counted in a scanline
MaxOff == 3

\* what is remembered of a scanline, from one wrap of the HSYNC counter to
\* the next: the HBlank-off events scheduled, whether an RSYNC was serviced,
\* and hmoveLatch at the ticks to 16 and to 18; ended is set by the wrap
NoScan ==
    [off |-> 0, rsync |-> FALSE, latch16 |-> FALSE, latch18 |-> FALSE,
     ended |-> FALSE]

\* what the checks remember of the Steps so far; no part of the program
NoObs ==
    [rsyncSeen |-> FALSE, wrapped |-> FALSE, sinceWrap |-> 0, gap |-> 0,
     pfAge |-> -1, pfBefore |-> 0, pfWritten |-> 0,
     hmoveSince |-> FALSE, latchBefore |-> FALSE,
     scan |-> NoScan, line |-> NoScan]

NewTIA(phase) ==
    [pclk |-> phase, hsync |-> 0, hblank |-> TRUE, hmoveLatch |-> FALSE,
     hmoveCt |-> 255, wsync |-> FALSE, rsyncEvent |-> FALSE, Delay |-> << >>,
     sig |-> InitSig, pf |-> 0, mem |-> NoData,
     svc |-> FALSE, data |-> NoData, order |-> << >>, offered |-> << >>,
     chipReads |-> 0, fired |-> << >>,
     tick |-> [visible |-> FALSE, isHmove |-> FALSE, hmoveCt |-> 255],
     smArg |-> FALSE,
     sent |-> InitSig, tvres |-> "nil", rdy |-> TRUE, err |-> "nil",
     obs |-> NoObs]

(***************************************************************************)
(* Observation of one Step: u is the TIA before it, t the TIA after it.    *)
(***************************************************************************)
Ran(seq) == {seq[i] : i \in 1..Len(seq)}

\* the Step serviced a write to reg
Serviced(t, reg) == t.chipReads = 1 /\ t.data.name = reg

\* the Step ticked the HSYNC counter round to 0
Wrapped(t) == "hsync" \in Ran(t.order) /\ t.hsync = 0

\* the color clock of the scanline the Step was, 0 for the Step that wraps
\* the counter (no RSYNC having moved the counter against the phase clock)
ColorClock(t) == t.hsync * 4 + ((t.pclk + 2) % 4)

\* watch names what is remembered: "clock" the wraps of the HSYNC counter,
\* "pf" the latest playfield write, "hmove" whether an HMOVE was serviced
\* since the last wrap and what hmoveLatch was before the Step
Observe(u, t, watch) ==
    LET o == u.obs
        rsync == o.rsyncSeen \/ Serviced(t, "RSYNC")
        pfNow == Serviced(t, "PF1")
        waiting == o.pfAge \in 0..(delayPlayfieldWrite - 1)
        clock == [rsyncSeen |-> rsync,
                  wrapped   |-> ~rsync /\ (o.wrapped \/ Wrapped(t)),
                  sinceWrap |-> IF rsync \/ Wrapped(t) THEN 0 ELSE o.sinceWrap + 1,
                  gap       |-> IF rsync THEN 0
                                ELSE IF Wrapped(t) /\ o.wrapped THEN o.sinceWrap + 1
                                ELSE o.gap]
        still == [rsyncSeen |-> o.rsyncSeen, wrapped |-> o.wrapped,
                  sinceWrap |-> o.sinceWrap, gap |-> o.gap]
        pf == [pfAge     |-> IF pfNow THEN 0 ELSE IF waiting THEN o.pfAge + 1 ELSE -1,
               pfBefore  |-> IF pfNow THEN u.pf ELSE IF waiting THEN o.pfBefore ELSE 0,
               pfWritten |-> IF pfNow THEN t.data.value
                             ELSE IF waiting THEN o.pfWritten ELSE 0]
        nopf == [pfAge |-> o.pfAge, pfBefore |-> o.pfBefore, pfWritten |-> o.pfWritten]
        hm == [hmoveSince  |-> ~Wrapped(t) /\ (o.hmoveSince \/ Serviced(t, "HMOVE")),
               latchBefore |-> u.hmoveLatch]
        nohm == [hmoveSince |-> o.hmoveSince, latchBefore |-> o.latchBefore]
        ticked == "hsync" \in Ran(t.order)
        off == \E i \in 1..Len(t.Delay) :
                    /\ t.Delay[i].payload = "_futureResetHBlank"
                    /\ t.Delay[i].remaining = hsyncDelay
        scan == IF o.scan.rsync \/ Serviced(t, "RSYNC")
                THEN [NoScan EXCEPT !.rsync = TRUE]
                ELSE [off     |-> IF off /\ o.scan.off < MaxOff
                                  THEN o.scan.off + 1 ELSE o.scan.off,
                      rsync   |-> FALSE,
                      latch16 |-> IF ticked /\ t.hsync = 16 THEN t.hmoveLatch
                                  ELSE o.scan.latch16,
                      latch18 |-> IF ticked /\ t.hsync = 18 THEN t.hmoveLatch
                                  ELSE o.scan.latch18,
                      ended   |-> FALSE]
        sc == IF "scan" \notin watch THEN [scan |-> o.scan, line |-> o.line]
              ELSE IF Wrapped(t)
              THEN [scan |-> NoScan, line |-> [o.scan EXCEPT !.ended = TRUE]]
              ELSE [scan |-> scan, line |-> o.line]
        c == IF "clock" \in watch THEN clock ELSE still
        f == IF "pf" \in watch THEN pf ELSE nopf
        h == IF "hmove" \in watch THEN hm ELSE nohm
    IN  [t EXCEPT !.obs =
            [rsyncSeen |-> c.rsyncSeen, wrapped |-> c.wrapped,
             sinceWrap |-> c.sinceWrap, gap |-> c.gap,
             pfAge |-> f.pfAge, pfBefore |-> f.pfBefore, pfWritten |-> f.pfWritten,
             hmoveSince |-> h.hmoveSince, latchBefore |-> h.latchBefore,
             scan |-> sc.scan, line |-> sc.line]]

(***************************************************************************)
(* The TIA on its own: one action, a color clock.  The CPU's bus write of  *)
(* the clock, if there is one and the inbox is free, lands in the inbox;   *)
(* then TIA.Step runs.                                                     *)
(***************************************************************************)
TVResults == {"nil", "TVOutOfSpec", "TVError"}

Write(name, value) == [name |-> name, value |-> value]

Arrive(t, w) == IF w # NoData /\ t.mem = NoData THEN [t EXCEPT !.mem = w] ELSE t

ColorClockOf(writes, tvs, watch) ==
    /\ \E w \in writes \cup {NoData}, serviceMemory \in BOOLEAN, tvres \in tvs :
            tia' = Observe(tia, TIAStep(Arrive(tia, w), serviceMemory, tvres), watch)
    /\ UNCHANGED vcs
    /\ UNCHANGED others

(***************************************************************************)
(* VCS.Step (vcs.go:80-136): one CPU instruction.                          *)
(***************************************************************************)
NewVCS ==
    [pc |-> "idle", instr |-> [cycles |-> 0, write |-> NoData, invalid |-> FALSE],
     k |-> 0, cpuCycles |-> 0, RdyFlg |-> TRUE, err |-> "nil",
     chip |-> [INPT4 |-> 0, INPT5 |-> 0, SWCHA |-> 0],
     riotSteps |-> 0, tiaClocks |-> 0, callbacks |-> 0, cycleLog |-> << >>,
     drained |-> 0, wsyncAt |-> -1, lowClocks |-> 0, relAt |-> -1]

(***************************************************************************)
(* The CPU (MC) and the cartridge, as VCS.AttachCartridge and VCS.Reset    *)
(* see them.  cpu.CPU and memory.Cartridge are not among the source files. *)
(***************************************************************************)
\* vcs.go:14
AddressReset == 65532

\* a cartridge: the bytes of its program from its origin on, and the word
\* of its reset vector
CartA ==
    [name |-> "A", origin |-> 61440, vector |-> 61440,
     bytes |-> << 169, 66, 133, 128, 76, 0, 240 >>]

CartB ==
    [name |-> "B", origin |-> 63488, vector |-> 63488,
     bytes |-> << 133, 2, 76, 0, 248 >>]

NoCart == [name |-> "", origin |-> 0, vector |-> 0, bytes |-> << >>]

Cartridges == {CartA, CartB}

\* a read of cartridge memory
CartRead(c, addr) ==
    CASE addr = AddressReset     -> c.vector % 256
      [] addr = AddressReset + 1 -> c.vector \div 256
      [] addr - c.origin \in 0..(Len(c.bytes) - 1) -> c.bytes[addr - c.origin + 1]
      [] OTHER -> 0

NoOp == [op |-> "", err |-> "nil", attached |-> FALSE, cpuReset |-> FALSE, pcBefore |-> 0]

NewMC ==
    [PC |-> 0, A |-> 0, SP |-> 0, InterruptDisable |-> FALSE, ram80 |-> 0,
     cart |-> NoCart, fromReset |-> FALSE, n |-> 0, total |-> 0, last |-> NoOp]

(***************************************************************************)
(* The debugger's front end to memory (debugger/memory.go).  The memory   *)
(* map, the memory areas and the symbol table are not among the source     *)
(* files.                                                                  *)
(***************************************************************************)
\* symbols.Table: for reading and for writing, a Go map from address to
\* symbol
PlainSymbols ==
    [Read  |-> (128 :> "Score" @@ 129 :> "Lives" @@ 2 :> "CXP0FB"),
     Write |-> (128 :> "Score" @@ 129 :> "Lives" @@ 2 :> "WSYNC")]

\* a table of a program whose labels differ in their case only
MixedCaseSymbols ==
    [Read  |-> (128 :> "Score" @@ 129 :> "SCORE" @@ 2 :> "CXP0FB"),
     Write |-> (128 :> "Score" @@ 129 :> "SCORE" @@ 2 :> "WSYNC")]

NoCall ==
    [op |-> "", arg |-> [kind |-> "", n |-> 0, s |-> ""], ok |-> FALSE,
     address |-> 0, mappedAddress |-> 0, area |-> "", data |-> 0, err |-> "nil"]

\* RAM as the debugger finds it: the cells at $80, $81 and $C0
NewDbg(table) ==
    [symtable |-> table, ram |-> (128 :> 0 @@ 129 :> 0 @@ 192 :> 0),
     ramBefore |-> (128 :> 0 @@ 129 :> 0 @@ 192 :> 0),
     prev |-> NoCall, cur |-> NoCall]

(***************************************************************************)
(* The hand controller of a player port (package input).  inputMemory, the *)
(* chips' InputDeviceWrite and ControlBits are not among the source files. *)
(***************************************************************************)
\* NewHandController0 and NewHandController1, with the memory of the two
\* chips as the controller finds it: no button pressed, capacitors empty
NewHandController(id) ==
    [id |-> id,
     stick |-> [addr |-> "SWCHA",
                buttonAddr |-> IF id = 0 THEN "INPT4" ELSE "INPT5",
                axis |-> 240, button |-> FALSE,
                addrMask |-> IF id = 0 THEN 15 ELSE 240],
     paddle |-> [addr |-> IF id = 0 THEN "INPT0" ELSE "INPT1",
                 buttonAddr |-> "SWCHA",
                 buttonMask |-> IF id = 0 THEN 127 ELSE 191,
                 charge |-> 0, resistance |-> 0, ticks |-> 0],
     keyboard |-> [key |-> ""],
     event |-> [type |-> "nil", rune |-> ""],
     control |-> [latchFireButton |-> FALSE],
     mem |-> [tia  |-> [a \in {"INPT0", "INPT1", "INPT4", "INPT5"} |->
                            IF a \in {"INPT4", "INPT5"} THEN 128 ELSE 0],
              riot |-> [a \in {"INPT0", "INPT1", "SWCHA"} |->
                            IF a = "SWCHA" THEN 255 ELSE 0]],
     recorder |-> [attached |-> FALSE, count |-> 0],
     last |-> [op |-> "", value |-> FALSE, calls |-> {}, err |-> "nil"]]

(***************************************************************************)
(* The lazy values of the GUI (gui/sdlimgui/lazyvalues/controllers.go).    *)
(* The GUI thread asks for the hand controllers of the emulation by        *)
(* pushing a function to the debugger, which runs it on its own thread     *)
(* between instructions.  An atomic.Value that was never stored to holds   *)
(* 0; HandController of the VCS is a positive number that the emulation    *)
(* changes.  stored and readers observe: the values ever stored, and the   *)
(* threads that read the VCS.                                              *)
(***************************************************************************)
MaxQueue == 2

MaxGeneration == 3

newLazyControllers ==
    [atomicHandController0 |-> 0, atomicHandController1 |-> 0,
     HandController0 |-> 0, HandController1 |-> 0,
     VCS |-> [HandController0 |-> 1, HandController1 |-> 1],
     queue |-> 0, gui |-> "idle", core |-> "idle",
     stored0 |-> {}, stored1 |-> {}, readers |-> {}]

(***************************************************************************)
(* The debugger (debugger/debugger.go): Start, the goroutine that handles  *)
(* ctrl-c, and the input loop.  main and handler are the positions of the  *)
(* two threads right after the go statement of Start; arrived and dropped  *)
(* count the interrupts signalled and those that found nobody receiving.   *)
(***************************************************************************)
MaxInterrupts == 3

\* the most iterations of the loop counted that neither prompt nor step
MaxIdle == 2

NewDebugger ==
    [running |-> FALSE, runUntilHalt |-> FALSE, inputloopNext |-> FALSE,
     main |-> "start", handler |-> "check", arrived |-> 0, dropped |-> 0,
     idle |-> 0]

(***************************************************************************)
(* The input loop of the debugger in its revision with script recording    *)
(* (debugger/debugger_test.go:566-788).  pc is the position in the loop,    *)
(* ret what inputLoop returned, last what the last step of the loop met.    *)
(***************************************************************************)
\* the most video cycles an instruction has left when the loop is entered
\* from its callback
MaxCyclesLeft == 2

NoEvent ==
    [at |-> "", event |-> "", printed |-> {}, runningBefore |-> FALSE,
     runBefore |-> FALSE, stepErrorBefore |-> FALSE]

NewInputLoop(videoCycle) ==
    [running |-> TRUE, runUntilHalt |-> FALSE, inputloopNext |-> FALSE,
     inputloopHalt |-> FALSE, lastStepError |-> FALSE, paused |-> FALSE,
     recording |-> FALSE, videoCycle |-> videoCycle, left |-> 0,
     pc |-> "top", ret |-> "", last |-> NoEvent]

(***************************************************************************)
(* patch.CartridgeMemory (package patch).  A patch file is the sequence of *)
(* its lines, a line the sequence of its characters.  plain is the same    *)
(* file with no whitespace but one space after the colon and one between   *)
(* the values.  The cartridge and its Patch function are not among the     *)
(* source files.                                                           *)
(***************************************************************************)
CartSize == 4

NoPatch ==
    [lines |-> <<>>, plain |-> <<>>, done |-> FALSE, patched |-> FALSE,
     err |-> "nil", writes |-> <<>>, plainWrites |-> <<>>]

(***************************************************************************)
(* Resource paths (paths/paths.go).  A name is the sequence of its         *)
(* characters and a path the sequence of its names.  stat is what os.Stat  *)
(* finds under the base name in the working directory, home what           *)
(* os.UserConfigDir returns.                                               *)
(***************************************************************************)
baseResourcePath == <<".", "g", "o", "p", "h", "e", "r", "2", "6", "0", "0">>

NoPath ==
    [stat |-> "none", home |-> [err |-> TRUE, dir |-> <<>>], resource |-> <<>>,
     done |-> FALSE, base |-> <<>>, path |-> <<>>]

(***************************************************************************)
(* Tab completion (debugger/commandline/tabcompletion.go).  A string is    *)
(* the sequence of its characters.                                         *)
(***************************************************************************)
\* the greatest number of Complete calls counted in one session
MaxTabs == 5

NewTabCompletion ==
    [matches |-> <<>>, match |-> -1, lastCompletion |-> <<>>,
     input |-> <<>>, result |-> <<>>,
     session |-> [calls |-> 0, first |-> <<>>, matches |-> <<>>]]

(***************************************************************************)
(* Debugger.parseInput in its revision with script recording               *)
(* (debugger/debugger_test.go:799-863).  commands is the input split at    *)
(* its semicolons; scribe is the script being recorded: the lines written, *)
(* and the line that is written when the next one comes unless it is       *)
(* rolled back.                                                            *)
(***************************************************************************)
\* the longest sequence of commands in one input
MaxCommands == 3

NoParse ==
    [commands |-> <<>>, interactive |-> FALSE, auto |-> FALSE,
     defaultStepCommand |-> "STEP",
     scribe |-> [active |-> FALSE, lines |-> <<>>, pending |-> ""],
     executed |-> <<>>, done |-> FALSE, step |-> FALSE, err |-> FALSE]

(***************************************************************************)
(* Debugger.parseCommand in its revision with the terminal package         *)
(* (debugger/commands.go).  A command is its first token and the tokens    *)
(* after it; scribe is the script being recorded; last is the command      *)
(* parsed last and what became of it.                                      *)
(***************************************************************************)
\* the most lines a recorded script holds
MaxScriptLines == 2

NoCommand ==
    [cmd |-> [name |-> "", args |-> <<>>], scribe |-> FALSE, active |-> FALSE,
     onHalt |-> <<>>, executed |-> FALSE, ret |-> FALSE, err |-> "nil"]

NewCommands ==
    [running |-> TRUE, runUntilHalt |-> FALSE,
     commandOnHalt |-> <<>>, commandOnHaltStored |-> <<>>, lastSet |-> <<>>,
     scribe |-> [active |-> FALSE, lines |-> <<>>, pending |-> ""],
     last |-> NoCommand]

\* the screen digest before NewSHA1 (part_004:17-22), with what the last
\* call did and the colours that SetPixel has put at each offset
NoDigest ==
    [digest |-> <<>>, frameData |-> <<>>, frameNum |-> 0,
     set |-> {}, pixels |-> 0, frames |-> 0,
     last |-> [at |-> "", err |-> "nil", offset |-> 0]]

InitOthers ==
    /\ mc = NewMC
    /\ dbg = NewDbg(PlainSymbols)
    /\ ctl = NewHandController(0)
    /\ lz = newLazyControllers
    /\ dg = NewDebugger
    /\ il = NewInputLoop(FALSE)
    /\ pt = NoPatch
    /\ pa = NoPath
    /\ tc = NewTabCompletion
    /\ pi = NoParse
    /\ cm = NewCommands
    /\ sd = NoDigest

Init ==
    /\ \E phase \in 0..3 : tia = NewTIA(phase)
    /\ vcs = NewVCS
    /\ InitOthers

InitTIA == Init

Log(v, what) == [v EXCEPT !.cycleLog = Append(v.cycleLog, what)]

\* vcs.go:100-101
RiotStep(v) ==
    Log(Log([v EXCEPT !.riotSteps = @ + 1], "RIOT.ReadRIOTMemory"), "RIOT.Step")

\* what is remembered of the RDY line, color clock by color clock: the
\* color clock that serviced WSYNC, the color clocks that ended with RDY
\* low, the color clock that released it
Watch(v, t) ==
    [v EXCEPT !.wsyncAt = IF Serviced(t, "WSYNC") THEN ColorClock(t) ELSE @,
              !.lowClocks = IF ~t.rdy THEN @ + 1 ELSE @,
              !.relAt = IF t.rdy /\ v.lowClocks > 0 /\ v.relAt = -1
                        THEN ColorClock(t) ELSE @]

\* vcs.go:105-106: vcs.MC.RdyFlg = vcs.TIA.StepVideoCycle(); videoCycleCallback(r)
\* the television of the console is in spec and answers nil
VideoCycle(s, serviceMemory) ==
    LET t == TIAStep(s.tia, serviceMemory, "nil")
        v == [s.vcs EXCEPT !.RdyFlg = t.rdy, !.tiaClocks = @ + 1]
        c == [Log(v, "TIA.StepVideoCycle") EXCEPT !.callbacks = @ + 1]
    IN  [tia |-> t, vcs |-> Watch(Log(c, "videoCycleCallback"), t)]

\* vcs.go:112: the write of this CPU cycle is serviced by the video cycle
\* that follows
ReadTIAMemory(s) == [s EXCEPT !.vcs = Log(s.vcs, "TIA.ReadTIAMemory")]

cycleVCS_TwoClocks(v, t) ==
    LET v1 == RiotStep([v EXCEPT !.cpuCycles = @ + 1, !.cycleLog = << >>])
    IN  CHOOSE s3 \in
            { VideoCycle(ReadTIAMemory(s1), TRUE) :
                s1 \in { VideoCycle([tia |-> t, vcs |-> v1], FALSE) } } : TRUE

\* vcs.go:92-116.  (The three video cycles are written as one-element sets
\* so that each is evaluated before the next begins.)
cycleVCS(v, t) ==
    LET v1 == RiotStep([v EXCEPT !.cpuCycles = @ + 1, !.cycleLog = << >>])
    IN  CHOOSE s3 \in
            { VideoCycle(ReadTIAMemory(s2), TRUE) :
                s2 \in { VideoCycle(s1, FALSE) :
                    s1 \in { VideoCycle([tia |-> t, vcs |-> v1], FALSE) } } } : TRUE

\* the instructions of the modelled CPU: so many cycles, the last of them
\* the bus write of a store; an opcode the CPU does not know costs its fetch
VCSWrites == {Write("WSYNC", 0)}

Instructions ==
    { [cycles |-> c, write |-> w, invalid |-> FALSE] :
        c \in 2..MaxInstrCycles, w \in {NoData} }
    \cup { [cycles |-> c, write |-> w, invalid |-> FALSE] :
        c \in 3..MaxInstrCycles, w \in VCSWrites }
    \cup { [cycles |-> 1, write |-> NoData, invalid |-> TRUE] }

Ready_Unchecked(v) == TRUE

\* vcs.go:131
Ready(v) == v.RdyFlg

\* vcs.go:80-124: entry of Step, up to the call of ExecuteInstruction
StepBegin ==
    /\ vcs.pc \in {"idle", "returned"}
    /\ \E i \in Instructions :
        vcs' = [vcs EXCEPT !.pc = "execute", !.instr = i, !.k = 0, !.cpuCycles = 0,
                           !.err = "nil",
                           !.chip = [INPT4 |-> 128, INPT5 |-> 128, SWCHA |-> 255],
                           !.riotSteps = 0, !.tiaClocks = 0, !.callbacks = 0,
                           !.cycleLog = << >>, !.drained = 0,
                           !.wsyncAt = -1, !.lowClocks = 0, !.relAt = -1]
    /\ UNCHANGED tia
    /\ UNCHANGED others

\* vcs.go:124-127: one CPU cycle of ExecuteInstruction: the bus access, then
\* the cycle callback
CpuCycle ==
    /\ vcs.pc = "execute"
    /\ LET k == vcs.k + 1
           last == k = vcs.instr.cycles
           t == IF last THEN Arrive(tia, vcs.instr.write) ELSE tia
           s == cycleVCS([vcs EXCEPT !.k = k], t)
       IN  /\ tia' = s.tia
           /\ vcs' = IF last /\ vcs.instr.invalid
                     THEN [s.vcs EXCEPT !.pc = "returned", !.err = "InvalidOpcode"]
                     ELSE [s.vcs EXCEPT !.pc = IF last THEN "drain" ELSE "execute"]
    /\ UNCHANGED others

\* vcs.go:131-133
DrainCycle ==
    /\ vcs.pc = "drain"
    /\ ~Ready(vcs)
    /\ LET s == cycleVCS([vcs EXCEPT !.drained = @ + 1], tia)
       IN  tia' = s.tia /\ vcs' = s.vcs
    /\ UNCHANGED others

\* vcs.go:135
StepReturn ==
    /\ vcs.pc = "drain"
    /\ Ready(vcs)
    /\ vcs' = [vcs EXCEPT !.pc = "returned", !.err = "nil"]
    /\ UNCHANGED tia
    /\ UNCHANGED others

Next == StepBegin \/ CpuCycle \/ DrainCycle \/ StepReturn

Spec == Init /\ [][Next]_vars

\* the clocks and the RDY line: WSYNC and RSYNC writes, any television answer
ClockWrites == {Write("WSYNC", 0), Write("RSYNC", 0)}

StepTIA == ColorClockOf(ClockWrites, TVResults, {"clock"})

SpecTIA == InitTIA /\ [][StepTIA]_vars

\* the video: playfield writes
VideoWrites == {Write("PF1", 255), Write("PF1", 0)}

StepVideo == ColorClockOf(VideoWrites, {"nil"}, {"pf"})

SpecVideo == InitTIA /\ [][StepVideo]_vars

\* the servicing of the inbox: a register of every handler, and an address
\* of the TIA page that no handler knows
ServiceWrites ==
    { Write("VSYNC", 2), Write("PF1", 0), Write("RESP0", 0), Write("COLUPF", 14),
      Write("HMP0", 16), Write("NUSIZ0", 1), Write("GRP0", 255), Write("AUDV0", 8),
      Write("UNDEF", 0) }

StepService == ColorClockOf(ServiceWrites, {"nil"}, {})

SpecService == InitTIA /\ [][StepService]_vars

\* the HMOVE latch and counter: HMOVE strobes
HmoveWrites == {Write("HMOVE", 0)}

StepHmove == ColorClockOf(HmoveWrites, {"nil"}, {"hmove"})

SpecHmove == InitTIA /\ [][StepHmove]_vars

\* the scanlines: HMOVE strobes and RSYNC
ScanWrites == {Write("HMOVE", 0), Write("RSYNC", 0)}

StepScan == ColorClockOf(ScanWrites, {"nil"}, {"scan"})

SpecScan == InitTIA /\ [][StepScan]_vars

(***************************************************************************)
(* The console with a cartridge: VCS.AttachCartridge, VCS.Reset, and       *)
(* VCS.Step executing the program of the cartridge.                        *)
(***************************************************************************)
\* cpu.Reset(): registers as after power on (SP = $FD, I = 1)
MCReset(m) ==
    [m EXCEPT !.PC = 0, !.A = 0, !.SP = 253, !.InterruptDisable = TRUE,
              !.n = 0, !.total = 0, !.last.cpuReset = TRUE]

\* cpu.LoadPC(addr): the word at addr, low byte first; memory answers
\* MissingCartridgeError when no cartridge is attached
LoadPC(m, addr) ==
    IF m.cart = NoCart
    THEN [mc |-> m, err |-> "MissingCartridgeError"]
    ELSE [mc |-> [m EXCEPT !.PC = CartRead(m.cart, addr) + 256 * CartRead(m.cart, addr + 1),
                           !.fromReset = TRUE],
          err |-> "nil"]

Reset_NoLoadPC(m, cpuErr) ==
    IF cpuErr # "nil" THEN [mc |-> m, err |-> cpuErr]
    ELSE [mc |-> MCReset(m), err |-> "nil"]

\* vcs.go:141-150; cpuErr is the answer of vcs.MC.Reset()
Reset(m, cpuErr) ==
    IF cpuErr # "nil"
    THEN [mc |-> m, err |-> cpuErr]
    ELSE LET l == LoadPC(MCReset(m), AddressReset)
         IN  IF l.err # "MissingCartridgeError"
             THEN l
             ELSE [mc |-> l.mc, err |-> "nil"]

\* vcs.Mem.Cart.Attach(filename): the file is loaded, or it is not and the
\* cartridge of before is kept or ejected
CartAttach(m, c, ok, keep) ==
    IF ok
    THEN [mc |-> [m EXCEPT !.cart = c, !.fromReset = FALSE, !.last.attached = TRUE],
          err |-> "nil"]
    ELSE [mc |-> [m EXCEPT !.cart = IF keep THEN @ ELSE NoCart,
                           !.fromReset = IF keep THEN @ ELSE FALSE],
          err |-> "CartridgeFileError"]

\* vcs.go:61-71
AttachCartridge(m, c, ok, keep, cpuErr) ==
    LET a == CartAttach(m, c, ok, keep)
    IN  IF a.err # "nil" THEN a ELSE Reset(a.mc, cpuErr)

Called(m, op) == [m EXCEPT !.last = [NoOp EXCEPT !.op = op, !.pcBefore = m.PC]]

Returned(r) == [r.mc EXCEPT !.last.err = r.err]

CPUErrors == {"nil", "InvalidOperationMidInstruction"}

\* after a reset of the CPU the Step of before is not counted on
AfterCall(m) == IF m.last.cpuReset THEN NewVCS ELSE vcs

DoAttachCartridge ==
    /\ vcs.pc \in {"idle", "returned"}
    /\ \E c \in Cartridges, ok \in BOOLEAN, keep \in BOOLEAN, cpuErr \in CPUErrors :
            mc' = Returned(AttachCartridge(Called(mc, "AttachCartridge"), c, ok, keep, cpuErr))
    /\ vcs' = AfterCall(mc')
    /\ UNCHANGED tia
    /\ UNCHANGED notConsole

DoReset ==
    /\ vcs.pc \in {"idle", "returned"}
    /\ \E cpuErr \in CPUErrors : mc' = Returned(Reset(Called(mc, "Reset"), cpuErr))
    /\ vcs' = AfterCall(mc')
    /\ UNCHANGED tia
    /\ UNCHANGED notConsole

InstructionCycles_LdaThree(opcode) ==
    CASE opcode = 169 -> 3
      [] opcode = 133 -> 3
      [] opcode = 76  -> 3
      [] OTHER -> 0

\* instructions.csv: the cycles column of the opcodes of the programs
\* (0 for an opcode that is not in the table)
InstructionCycles(opcode) ==
    CASE opcode = 169 -> 2
      [] opcode = 133 -> 3
      [] opcode = 76  -> 3
      [] OTHER -> 0

\* the bus write of a store to the zero page: a TIA register, or RAM
ZeroPageWrite(addr, v) == IF addr = 2 THEN Write("WSYNC", v) ELSE NoData

\* cpu.ExecuteInstruction: fetch at PC, decode, and the effect on the
\* registers and on RAM
Decode(m) ==
    LET opcode == CartRead(m.cart, m.PC)
        lo == CartRead(m.cart, m.PC + 1)
        hi == CartRead(m.cart, m.PC + 2)
    IN  [cycles  |-> IF InstructionCycles(opcode) = 0 THEN 1 ELSE InstructionCycles(opcode),
         write   |-> IF opcode = 133 THEN ZeroPageWrite(lo, m.A) ELSE NoData,
         invalid |-> InstructionCycles(opcode) = 0,
         mc |-> CASE opcode = 169 -> [m EXCEPT !.A = lo, !.PC = @ + 2]
                  [] opcode = 133 -> [m EXCEPT !.ram80 = IF lo = 128 THEN m.A ELSE @,
                                               !.PC = @ + 2]
                  [] opcode = 76  -> [m EXCEPT !.PC = lo + 256 * hi]
                  [] OTHER -> m]

\* vcs.go:80-124 with the instruction at PC; the cycles of the Steps before
\* it are added up for the first MaxCounted instructions after a reset (and
\* forgotten after them)
StepProgram ==
    /\ vcs.pc \in {"idle", "returned"}
    /\ mc.cart # NoCart
    /\ LET d == Decode(mc)
           spent == IF vcs.pc = "returned" THEN vcs.cpuCycles ELSE 0
       IN  /\ mc' = [d.mc EXCEPT !.n = IF @ > MaxCounted THEN @ ELSE @ + 1,
                                 !.total = IF mc.n < MaxCounted THEN @ + spent ELSE 0,
                                 !.last = [NoOp EXCEPT !.op = "Step"]]
           /\ vcs' = [vcs EXCEPT !.pc = "execute", !.k = 0, !.cpuCycles = 0,
                                 !.instr = [cycles |-> d.cycles, write |-> d.write,
                                            invalid |-> d.invalid],
                                 !.err = "nil",
                                 !.chip = [INPT4 |-> 128, INPT5 |-> 128, SWCHA |-> 255],
                                 !.riotSteps = 0, !.tiaClocks = 0, !.callbacks = 0,
                                 !.cycleLog = << >>, !.drained = 0,
                                 !.wsyncAt = -1, !.lowClocks = 0, !.relAt = -1]
    /\ UNCHANGED tia
    /\ UNCHANGED notConsole

NextConsole ==
    DoAttachCartridge \/ DoReset \/ StepProgram \/ CpuCycle \/ DrainCycle \/ StepReturn

InitConsole ==
    /\ tia = NewTIA(0)
    /\ vcs = NewVCS
    /\ InitOthers
    /\ tc = NewTabCompletion
    /\ pi = NoParse
    /\ cm = NewCommands
    /\ sd = NoDigest

SpecConsole == InitConsole /\ [][NextConsole]_vars

(***************************************************************************)
(* memoryDebug: mapAddress, peek, poke (debugger/memory.go).               *)
(***************************************************************************)
Uint16(n) == [kind |-> "uint16", n |-> n, s |-> ""]

String(s) == [kind |-> "string", n |-> 0, s |-> s]

\* strings.ToUpper, on the strings of the model
ToUpper(s) ==
    CASE s \in {"Score", "score", "SCORE"} -> "SCORE"
      [] s = "Lives" -> "LIVES"
      [] s = "0x80"  -> "0X80"
      [] s = "0x180" -> "0X180"
      [] s = "bogus" -> "BOGUS"
      [] OTHER -> s

\* strconv.ParseUint(s, 0, 16), on the strings of the model
ParseUint(s) ==
    CASE s \in {"0x80", "0X80"}   -> [ok |-> TRUE, n |-> 128]
      [] s \in {"0x180", "0X180"} -> [ok |-> TRUE, n |-> 384]
      [] OTHER -> [ok |-> FALSE, n |-> 0]

\* RAM mapped for a write as a TIA register is, by the low 6 bits
MapAddress_WriteMask(address, read) ==
    LET a == address % 8192
    IN  IF a >= 4096 THEN [mapped |-> a, area |-> "Cartridge"]
        ELSE IF (a \div 128) % 2 = 0
             THEN [mapped |-> IF read THEN a % 16 ELSE a % 64, area |-> "TIA"]
        ELSE IF (a \div 512) % 2 = 0
             THEN [mapped |-> 128 + (IF read THEN a % 128 ELSE a % 64), area |-> "RAM"]
        ELSE [mapped |-> 640 + (a % 32), area |-> "RIOT"]

\* memorymap.MapAddress(address, read): A12 selects the cartridge, A7 the
\* RIOT (A9: RAM or timer and ports) or the TIA (low 4 bits for reads, low 6
\* for writes); the mapped address is the lowest mirror
MapAddress(address, read) ==
    LET a == address % 8192
    IN  IF a >= 4096 THEN [mapped |-> a, area |-> "Cartridge"]
        ELSE IF (a \div 128) % 2 = 0
             THEN [mapped |-> IF read THEN a % 16 ELSE a % 64, area |-> "TIA"]
        ELSE IF (a \div 512) % 2 = 0
             THEN [mapped |-> 128 + (a % 128), area |-> "RAM"]
        ELSE [mapped |-> 640 + (a % 32), area |-> "RIOT"]

\* memory.go:82-141.  A Go map is ranged over in an order that is not
\* specified: the loop that breaks at the first symbol that matches finds
\* any of the symbols that match.  The result is the set of the addressInfo
\* that the call can return.
mapAddress(d, address, read) ==
    LET symbolTable == IF read THEN d.symtable.Read ELSE d.symtable.Write
        Info(a) ==
            LET m == MapAddress(a, read)
            IN  [nil |-> FALSE, address |-> a, mappedAddress |-> m.mapped,
                 area |-> m.area, read |-> read,
                 addressLabel |-> IF m.mapped \in DOMAIN symbolTable
                                  THEN symbolTable[m.mapped] ELSE ""]
        sensitive == {a \in DOMAIN symbolTable : symbolTable[a] = address.s}
        insensitive ==
            {a \in DOMAIN symbolTable : ToUpper(symbolTable[a]) = ToUpper(address.s)}
        parsed == ParseUint(ToUpper(address.s))
    IN  IF address.kind = "uint16" THEN {Info(address.n)}
        ELSE IF sensitive # {} THEN {Info(a) : a \in sensitive}
        ELSE IF insensitive # {} THEN {Info(a) : a \in insensitive}
        ELSE IF parsed.ok THEN {Info(parsed.n)}
        ELSE {[nil |-> TRUE]}

\* memory area Peek: RAM gives the cell, the other areas what they hold
AreaPeek(d, area, mapped) ==
    IF area = "RAM" /\ mapped \in DOMAIN d.ram THEN d.ram[mapped] ELSE 0

\* memory area Poke: RAM takes the byte, the other areas refuse it
AreaPoke(d, area, mapped, data) ==
    IF area = "RAM" /\ mapped \in DOMAIN d.ram
    THEN [d |-> [d EXCEPT !.ram[mapped] = data], err |-> "nil"]
    ELSE [d |-> d, err |-> "UnpokeableAddress"]

Call(d, op, address) ==
    [d EXCEPT !.prev = d.cur, !.ramBefore = d.ram,
              !.cur = [NoCall EXCEPT !.op = op, !.arg = address]]

Answer(d, ai, data) ==
    [d EXCEPT !.cur.ok = TRUE, !.cur.address = ai.address,
              !.cur.mappedAddress = ai.mappedAddress, !.cur.area = ai.area,
              !.cur.data = data]

\* memory.go:145-164, ai being what mapAddress(address, true) returned
peek(d, ai) ==
    IF ai.nil
    THEN [d EXCEPT !.cur.err = "UnpeekableAddress"]
    ELSE Answer(d, ai, AreaPeek(d, ai.area, ai.mappedAddress))

\* memory.go:168-188, ai being what mapAddress(address, false) returned
poke(d, ai, data) ==
    IF ai.nil
    THEN [d EXCEPT !.cur.err = "UnpokeableAddress"]
    ELSE LET p == AreaPoke(d, ai.area, ai.mappedAddress, data)
         IN  IF p.err # "nil"
             THEN [d EXCEPT !.cur.err = p.err]
             ELSE Answer(p.d, ai, data)

\* the addresses the debugger is given: RAM and a mirror of it, a TIA
\* register, symbols in the case of the table and in another, numbers as
\* text, and text that is neither
Addresses ==
    { Uint16(128), Uint16(192), Uint16(384), Uint16(2) }
    \cup { String(s) : s \in {"Score", "score", "Lives", "0x80", "0x180", "WSYNC", "bogus"} }

DoPeek ==
    /\ \E address \in Addresses :
        \E ai \in mapAddress(dbg, address, TRUE) :
            dbg' = peek(Call(dbg, "peek", address), ai)
    /\ UNCHANGED notDbg

DoPoke ==
    /\ \E address \in Addresses, data \in {7, 66} :
        \E ai \in mapAddress(dbg, address, FALSE) :
            dbg' = poke(Call(dbg, "poke", address), ai, data)
    /\ UNCHANGED notDbg

InitDebugMem ==
    /\ tia = NewTIA(0)
    /\ vcs = NewVCS
    /\ mc = NewMC
    /\ \E table \in {PlainSymbols, MixedCaseSymbols} : dbg = NewDbg(table)
    /\ ctl = NewHandController(0)
    /\ lz = newLazyControllers
    /\ dg = NewDebugger
    /\ il = NewInputLoop(FALSE)
    /\ pt = NoPatch
    /\ pa = NoPath
    /\ tc = NewTabCompletion
    /\ pi = NoParse
    /\ cm = NewCommands
    /\ sd = NoDigest

SpecDebugMem == InitDebugMem /\ [][DoPeek \/ DoPoke]_vars

(***************************************************************************)
(* HandController: the fire button, the latch, the paddle's capacitor.     *)
(***************************************************************************)
\* InputDeviceWrite(address, data, 0x00) of a chip's memory: with a mask of
\* zero no bit of the register is preserved
InputDeviceWrite(chip, address, data) == [chip EXCEPT ![address] = data]

HandleFire_Unlatched(hc, b) ==
    [hc EXCEPT !.stick.button = b,
               !.mem.tia = InputDeviceWrite(@, hc.stick.buttonAddr,
                                            IF b THEN 0 ELSE 128),
               !.last = [op |-> "Fire", value |-> b, calls |-> {}, err |-> "nil"]]

\* Handle(Fire, b)
HandleFire(hc, b) ==
    [hc EXCEPT !.stick.button = b,
               !.mem.tia = IF b
                           THEN InputDeviceWrite(@, hc.stick.buttonAddr, 0)
                           ELSE IF ~hc.control.latchFireButton
                           THEN InputDeviceWrite(@, hc.stick.buttonAddr, 128)
                           ELSE @,
               !.last = [op |-> "Fire", value |-> b, calls |-> {}, err |-> "nil"]]

\* Handle(PaddleSet, f): f and the resistance in hundredths
HandlePaddleSet(hc, f) ==
    [hc EXCEPT !.paddle.resistance = 100 - f,
               !.last = [op |-> "PaddleSet", value |-> FALSE, calls |-> {}, err |-> "nil"]]

unlatch(hc) ==
    [hc EXCEPT !.mem.tia = IF ~hc.stick.button
                           THEN InputDeviceWrite(@, hc.stick.buttonAddr, 128)
                           ELSE @,
               !.last.calls = @ \cup {"unlatch"}]

ground(hc) ==
    [hc EXCEPT !.paddle.charge = 0,
               !.mem.riot = InputDeviceWrite(@, hc.paddle.addr, 0),
               !.last.calls = @ \cup {"ground"}]

\* ticks in units of paddleSensitivity, a hundredth
recharge(hc) ==
    LET ticks == hc.paddle.ticks + 1
        full == ticks >= hc.paddle.resistance
        charge == hc.paddle.charge + 1
    IN  IF hc.paddle.charge < 255
        THEN [hc EXCEPT !.paddle.ticks = IF full THEN 0 ELSE ticks,
                        !.paddle.charge = IF full THEN charge ELSE @,
                        !.mem.tia = IF full
                                    THEN InputDeviceWrite(@, hc.paddle.addr, charge)
                                    ELSE @,
                        !.last = [op |-> "step", value |-> full,
                                  calls |-> {"recharge"}, err |-> "nil"]]
        ELSE [hc EXCEPT !.last = [op |-> "step", value |-> FALSE,
                                  calls |-> {"recharge"}, err |-> "nil"]]

\* Handle(KeyboardDown, value): a value that is not a rune, and a rune that
\* is not a key of the keypad, are refused
HandleKeyboardDown(hc, value) ==
    LET last == [op |-> "KeyboardDown", value |-> FALSE, calls |-> {},
                 err |-> "nil"]
    IN  IF value.type # "rune"
        THEN [hc EXCEPT !.last = [last EXCEPT !.err = "BadInputEventType"]]
        ELSE IF value.rune \notin {"1", "2", "3", "4", "5", "6", "7", "8", "9",
                                   "*", "#"}
        THEN [hc EXCEPT !.last = [last EXCEPT !.err = "BadInputEventType"]]
        ELSE [hc EXCEPT !.keyboard.key = value.rune, !.last = last]

\* Handle(KeyboardUp, value)
HandleKeyboardUp(hc, value) ==
    LET last == [op |-> "KeyboardUp", value |-> FALSE, calls |-> {},
                 err |-> "nil"]
    IN  IF value.type # "nil"
        THEN [hc EXCEPT !.last = [last EXCEPT !.err = "BadInputEventType"]]
        ELSE [hc EXCEPT !.keyboard.key = " ", !.last = last]

\* the values that come with an event of the keyboard: runes, the keys of
\* the keypad among them, a bool, and nil
EventValues ==
    { [type |-> "rune", rune |-> r] :
        r \in {"0", "1", "2", "3", "4", "5", "6", "7", "8", "9", "*", "#",
               "a", " "} }
    \cup { [type |-> "bool", rune |-> ""], [type |-> "nil", rune |-> ""] }

Fire ==
    /\ \E b \in BOOLEAN : ctl' = HandleFire(ctl, b)
    /\ UNCHANGED notCtl

\* the paddle turned fully, or short of it by two or three hundredths
PaddleSet ==
    /\ \E f \in {100, 98, 97} : ctl' = HandlePaddleSet(ctl, f)
    /\ UNCHANGED notCtl

\* VBLANK written: bit 6 is the latch of the fire buttons, and without it
\* the buttons are unlatched; bit 7 grounds the paddles
WriteVBLANK ==
    /\ \E bit6, bit7 \in BOOLEAN :
        LET latched == [ctl EXCEPT !.control.latchFireButton = bit6,
                                   !.last = [op |-> "VBLANK", value |-> bit6,
                                             calls |-> {}, err |-> "nil"]]
            buttons == IF bit6 THEN latched ELSE unlatch(latched)
        IN  ctl' = IF bit7 THEN ground(buttons) ELSE buttons
    /\ UNCHANGED notCtl

\* HandController.step, every video step
StepController ==
    /\ ctl' = recharge(ctl)
    /\ UNCHANGED notCtl

\* ctl.event is not part of the controller: the value of the event handled
KeyboardDown ==
    /\ \E value \in EventValues :
        ctl' = [HandleKeyboardDown(ctl, value) EXCEPT !.event = value]
    /\ UNCHANGED notCtl

KeyboardUp ==
    /\ \E value \in EventValues :
        ctl' = [HandleKeyboardUp(ctl, value) EXCEPT !.event = value]
    /\ UNCHANGED notCtl

\* a & b of two bytes
And8(a, b) ==
    LET RECURSIVE Bits(_, _, _)
        Bits(x, y, n) == IF n = 0 THEN 0
                         ELSE (x % 2) * (y % 2) + 2 * Bits(x \div 2, y \div 2, n - 1)
    IN  Bits(a, b, 8)

\* InputDeviceWrite(address, data, mask) of a chip's memory: the bits of
\* the mask are preserved, the others are the data's
InputDeviceWriteMasked(chip, address, data, mask) ==
    [chip EXCEPT ![address] = And8(@, mask) + And8(data, 255 - mask)]

\* the stick's transform
transform(hc, n) == IF hc.id = 0 THEN n ELSE n \div 16

\* axis &^= bit for a direction pressed
StickAxis_Clear(axis, bit, b) ==
    IF b THEN axis - And8(axis, bit) ELSE axis + bit - And8(axis, bit)

\* axis ^= bit for a direction pressed, axis |= bit for one released
StickAxis(axis, bit, b) ==
    IF b THEN axis + bit - 2 * And8(axis, bit) ELSE axis + bit - And8(axis, bit)

\* the return of an error before anything is done
Refuse_Recorded(hc, event, err) ==
    [hc EXCEPT !.recorder.count = @ + 1,
               !.last = [op |-> event, value |-> FALSE, calls |-> {}, err |-> err]]

Refuse(hc, event, err) ==
    [hc EXCEPT !.last = [op |-> event, value |-> FALSE, calls |-> {}, err |-> err]]

DirectionBit ==
    [e \in {"Left", "Right", "Up", "Down"} |->
        CASE e = "Left" -> 64 [] e = "Right" -> 128 [] e = "Up" -> 16 [] OTHER -> 32]

\* Handle(Left | Right | Up | Down, value)
HandleDirection(hc, event, value) ==
    IF value.type # "bool" THEN Refuse(hc, event, "BadInputEventType")
    ELSE LET axis == StickAxis(hc.stick.axis, DirectionBit[event], value.b)
         IN  [hc EXCEPT !.stick.axis = axis,
                        !.mem.riot = InputDeviceWriteMasked(@, hc.stick.addr,
                                        transform(hc, axis), hc.stick.addrMask),
                        !.last = [op |-> event, value |-> value.b, calls |-> {},
                                  err |-> "nil"]]

\* Handle(PaddleFire, value)
HandlePaddleFire(hc, value) ==
    IF value.type # "bool" THEN Refuse(hc, "PaddleFire", "BadInputEventType")
    ELSE [hc EXCEPT !.mem.riot = InputDeviceWriteMasked(@, hc.paddle.buttonAddr,
                                    IF value.b THEN 0 ELSE 255, hc.paddle.buttonMask),
                    !.last = [op |-> "PaddleFire", value |-> value.b, calls |-> {},
                              err |-> "nil"]]

\* the switch of Handle
HandleEvent(hc, event, value) ==
    CASE event \in {"Left", "Right", "Up", "Down"} -> HandleDirection(hc, event, value)
      [] event = "Fire" ->
            IF value.type # "bool" THEN Refuse(hc, event, "BadInputEventType")
            ELSE HandleFire(hc, value.b)
      [] event = "PaddleFire" -> HandlePaddleFire(hc, value)
      [] event = "PaddleSet" ->
            IF value.type # "float32" THEN Refuse(hc, event, "BadInputEventType")
            ELSE HandlePaddleSet(hc, value.f)
      [] event = "KeyboardDown" -> HandleKeyboardDown(hc, value)
      [] event = "KeyboardUp" -> HandleKeyboardUp(hc, value)
      [] event = "Unplug" -> Refuse(hc, event, "InputDeviceUnplugged")
      [] OTHER -> Refuse(hc, event, "UnknownInputEvent")

\* HandController.Handle; recorded is what RecordEvent returns
HandleWithRecorder(hc, event, value, recorded) ==
    IF event = "NoEvent" THEN Refuse(hc, event, "nil")
    ELSE LET h == HandleEvent(hc, event, value)
         IN  IF h.last.err # "nil" \/ ~hc.recorder.attached THEN h
             ELSE [h EXCEPT !.recorder.count = @ + 1, !.last.err = recorded]

\* the most events counted by the recorder
MaxRecorded == 2

HandleValues ==
    { [type |-> "bool", rune |-> "", b |-> b, f |-> 0] : b \in BOOLEAN }
    \cup { [type |-> "rune", rune |-> r, b |-> FALSE, f |-> 0] : r \in {"1"} }
    \cup { [type |-> "float32", rune |-> "", b |-> FALSE, f |-> 98],
           [type |-> "nil", rune |-> "", b |-> FALSE, f |-> 0] }

HandleEvents ==
    {"NoEvent", "Left", "Right", "Up", "Down", "Fire", "PaddleFire", "PaddleSet",
     "KeyboardDown", "KeyboardUp", "Unplug", "PanelSelect"}

\* an event from the user interface, a script or a playback
PortHandle ==
    /\ ctl.recorder.count < MaxRecorded
    /\ \E event \in HandleEvents, value \in HandleValues,
          recorded \in IF ctl.recorder.attached THEN {"nil", "RecorderError"}
                       ELSE {"nil"} :
        ctl' = [HandleWithRecorder(ctl, event, value, recorded)
                    EXCEPT !.event = [type |-> value.type, rune |-> value.rune]]
    /\ UNCHANGED notCtl

NextInput == Fire \/ PaddleSet \/ WriteVBLANK \/ StepController

InitInput ==
    /\ tia = NewTIA(0)
    /\ vcs = NewVCS
    /\ mc = NewMC
    /\ dbg = NewDbg(PlainSymbols)
    /\ \E id \in {0, 1} : ctl = NewHandController(id)
    /\ lz = newLazyControllers
    /\ dg = NewDebugger
    /\ il = NewInputLoop(FALSE)
    /\ pt = NoPatch
    /\ pa = NoPath
    /\ tc = NewTabCompletion
    /\ pi = NoParse
    /\ cm = NewCommands
    /\ sd = NoDigest

SpecInput == InitInput /\ [][NextInput]_vars

SpecKeyboard == InitInput /\ [][KeyboardDown \/ KeyboardUp \/ Fire]_vars

InitHandle ==
    /\ tia = NewTIA(0)
    /\ vcs = NewVCS
    /\ mc = NewMC
    /\ dbg = NewDbg(PlainSymbols)
    /\ \E id \in {0, 1}, attached \in BOOLEAN :
        ctl = [NewHandController(id) EXCEPT !.recorder.attached = attached]
    /\ lz = newLazyControllers
    /\ dg = NewDebugger
    /\ il = NewInputLoop(FALSE)
    /\ pt = NoPatch
    /\ pa = NoPath
    /\ tc = NewTabCompletion
    /\ pi = NoParse
    /\ cm = NewCommands
    /\ sd = NoDigest

SpecHandle == InitHandle /\ [][PortHandle]_vars

(***************************************************************************)
(* LazyControllers.update, and the debugger running what was pushed.       *)
(***************************************************************************)
\* the first and the second statement of the function that update() pushes,
\* run by a thread
Store0(l, thread) ==
    [l EXCEPT !.atomicHandController0 = l.VCS.HandController0,
              !.stored0 = @ \cup {l.VCS.HandController0},
              !.readers = @ \cup {thread}]

Store1(l, thread) ==
    [l EXCEPT !.atomicHandController1 = l.VCS.HandController1,
              !.stored1 = @ \cup {l.VCS.HandController1},
              !.readers = @ \cup {thread}]

\* the function run at once by the thread that pushes it
PushRawEvent_Inline(l, thread) == Store1(Store0(l, thread), thread)

\* Debugger.PushRawEvent: the function is queued for the debugger's thread
PushRawEvent(l, thread) == [l EXCEPT !.queue = @ + 1]

\* update(), up to the first Load
Update ==
    /\ lz.gui = "idle"
    /\ lz.queue < MaxQueue
    /\ lz' = [PushRawEvent(lz, "gui") EXCEPT !.gui = "load0"]
    /\ UNCHANGED notLz

Load0 ==
    /\ lz.gui = "load0"
    /\ lz' = [lz EXCEPT !.HandController0 = lz.atomicHandController0,
                         !.gui = "load1"]
    /\ UNCHANGED notLz

Load1 ==
    /\ lz.gui = "load1"
    /\ lz' = [lz EXCEPT !.HandController1 = lz.atomicHandController1,
                         !.gui = "idle"]
    /\ UNCHANGED notLz

\* the debugger, between two instructions, takes a function from the queue
RunPushed0 ==
    /\ lz.core = "idle"
    /\ lz.queue > 0
    /\ lz' = [Store0(lz, "core") EXCEPT !.queue = @ - 1, !.core = "store1"]
    /\ UNCHANGED notLz

RunPushed1 ==
    /\ lz.core = "store1"
    /\ lz' = [Store1(lz, "core") EXCEPT !.core = "idle"]
    /\ UNCHANGED notLz

\* the emulation goes on and the state of the VCS changes
Emulate ==
    /\ lz.core = "idle"
    /\ lz.VCS.HandController0 < MaxGeneration
    /\ lz' = [lz EXCEPT !.VCS.HandController0 = @ + 1,
                         !.VCS.HandController1 = @ + 1]
    /\ UNCHANGED notLz

NextLazy == Update \/ Load0 \/ Load1 \/ RunPushed0 \/ RunPushed1 \/ Emulate

SpecLazy == Init /\ [][NextLazy]_vars

(***************************************************************************)
(* Debugger.Start and Debugger.inputLoop (debugger/debugger.go), the main  *)
(* thread and the ctrl-c goroutine interleaved at their reads and writes   *)
(* of running and runUntilHalt.                                            *)
(***************************************************************************)
\* dbg.running = true, and on to inputLoop(true)
StartRunning ==
    /\ dg.main = "start"
    /\ dg' = [dg EXCEPT !.running = TRUE, !.main = "loop"]
    /\ UNCHANGED notDg

\* one iteration of for dbg.running { ... } up to UserRead or vcs.Step, no
\* breakpoint or trap set: inputloopHalt = inputloopHalt || !runUntilHalt,
\* the halt state if it is set, the step if inputloopNext is set, and
\* otherwise the next iteration
LoopTop ==
    /\ dg.main = "loop"
    /\ dg' = IF ~dg.running THEN [dg EXCEPT !.main = "returned"]
             ELSE IF ~dg.runUntilHalt
                  THEN [dg EXCEPT !.runUntilHalt = FALSE, !.main = "prompt"]
             ELSE IF dg.inputloopNext THEN [dg EXCEPT !.main = "step"]
             ELSE [dg EXCEPT !.idle = IF @ < MaxIdle THEN @ + 1 ELSE @]
    /\ UNCHANGED notDg

\* parseCommand by what it does to the debugger and what it returns: RUN,
\* STEP and the empty input return true, QUIT stops the debugger, a command
\* that is no command is an error
parseCommand(d, command) ==
    CASE command = "RUN" -> [d |-> [d EXCEPT !.runUntilHalt = TRUE], cont |-> TRUE, err |-> FALSE]
      [] command \in {"STEP", ""} -> [d |-> d, cont |-> TRUE, err |-> FALSE]
      [] command = "QUIT" -> [d |-> [d EXCEPT !.running = FALSE], cont |-> FALSE, err |-> FALSE]
      [] command = "CPU" -> [d |-> d, cont |-> FALSE, err |-> FALSE]
      [] OTHER -> [d |-> d, cont |-> FALSE, err |-> TRUE]

RECURSIVE parseCommands(_, _, _)
\* the loop of parseInput over the commands between the semicolons
parseCommands(d, commands, cont) ==
    IF commands = <<>> THEN [d |-> d, cont |-> cont]
    ELSE LET r == parseCommand(d, Head(commands))
         IN  IF r.err THEN [d |-> r.d, cont |-> FALSE]
             ELSE parseCommands(r.d, Tail(commands), r.cont)

\* what the user enters, split at the semicolons
UserInputs ==
    {<<"RUN">>, <<"STEP">>, <<"">>, <<"CPU">>, <<"QUIT">>, <<"FOO">>,
     <<"RUN", "CPU">>, <<"CPU", "RUN">>, <<"STEP", "CPU">>, <<"RUN", "FOO">>,
     <<"CPU", "STEP">>}

\* UserRead and parseInput, to the end of the halt state; UserRead may
\* return the UserInterrupt error of the user interface
Prompt ==
    /\ dg.main = "prompt"
    /\ \/ \E input \in UserInputs :
            LET r == parseCommands(dg, input, FALSE)
            IN  dg' = [r.d EXCEPT !.inputloopNext = r.cont, !.idle = 0,
                                  !.main = IF r.cont THEN "step" ELSE "loop"]
       \/ dg' = [dg EXCEPT !.running = FALSE, !.main = "returned"]
    /\ UNCHANGED notDg

\* vcs.Step
StepVCS ==
    /\ dg.main = "step"
    /\ dg' = [dg EXCEPT !.main = "loop", !.idle = 0]
    /\ UNCHANGED notDg

\* the goroutine's for dbg.running
HandlerCheck ==
    /\ dg.handler = "check"
    /\ dg' = [dg EXCEPT !.handler = IF dg.running THEN "receive" ELSE "done"]
    /\ UNCHANGED notDg

\* os.Interrupt: signal.Notify does not block to send, and ctrlC has no
\* buffer: the signal is received if the goroutine is at <-ctrlC
Interrupt ==
    /\ dg.arrived < MaxInterrupts
    /\ dg' = IF dg.handler = "receive"
             THEN [dg EXCEPT !.arrived = @ + 1, !.handler = "serve"]
             ELSE [dg EXCEPT !.arrived = @ + 1, !.dropped = @ + 1]
    /\ UNCHANGED notDg

\* the body of the goroutine's loop after <-ctrlC
HandlerServe ==
    /\ dg.handler = "serve"
    /\ dg' = IF dg.runUntilHalt
             THEN [dg EXCEPT !.runUntilHalt = FALSE, !.handler = "check"]
             ELSE [dg EXCEPT !.running = FALSE, !.handler = "check"]
    /\ UNCHANGED notDg

NextStart ==
    \/ StartRunning \/ LoopTop \/ Prompt \/ StepVCS
    \/ HandlerCheck \/ Interrupt \/ HandlerServe

SpecStart == Init /\ [][NextStart]_vars

(***************************************************************************)
(* Debugger.inputLoop with script recording (debugger_test.go:566-788).    *)
(* parseCommand of this revision, checkInterruptsAndEvents and the script  *)
(* scribe are not among the source files.                                  *)
(***************************************************************************)
Met(d, at, event, printed) ==
    [d EXCEPT !.last = [at |-> at, event |-> event, printed |-> printed,
                        runningBefore |-> d.running,
                        runBefore |-> d.runUntilHalt,
                        stepErrorBefore |-> d.lastStepError]]

Return(d, ret) == [d EXCEPT !.pc = "returned", !.ret = ret]

\* a step error not counted as a reason to halt
HaltCondition_Messages(d, messages) == messages

\* the halt conditions: step traps, breakpoints, traps and watches have a
\* message, or the last step returned an error
HaltCondition(d, messages) == messages \/ d.lastStepError

\* only a 'y' confirms
Confirmed_Typed(answer) == answer \in {"y", "Y"}

\* the confirmation of the quit: an interrupt at its prompt is a 'y'
Confirmed(answer) == answer \in {"y", "Y", "UserInterrupt"}

\* parseInput of one command, by what it does to the fields of the loop;
\* the result is stored in inputloopNext
parseInput(d, input) ==
    CASE input = "RUN" -> [d EXCEPT !.runUntilHalt = TRUE, !.inputloopNext = TRUE]
      [] input = "STEP" -> [d EXCEPT !.inputloopNext = TRUE]
      [] input = "SCRIPT RECORD" -> [d EXCEPT !.recording = TRUE, !.inputloopNext = FALSE]
      [] input = "SCRIPT END" -> [d EXCEPT !.recording = FALSE, !.inputloopNext = FALSE]
      [] input = "EXIT" -> [d EXCEPT !.running = IF d.recording THEN @ ELSE FALSE,
                                     !.recording = FALSE, !.inputloopNext = FALSE]
      [] OTHER -> [d EXCEPT !.inputloopNext = FALSE]

\* from the second checkInterruptsAndEvents of an iteration to its end of
\* the halt state, input being what is parsed
AfterRead(d, input) ==
    IF ~d.running
    THEN Return(d, "nil")
    ELSE LET q == [parseInput(d, input) EXCEPT !.inputloopHalt = FALSE]
         IN  [q EXCEPT !.paused = IF q.inputloopNext THEN FALSE ELSE @,
                       !.pc = IF q.inputloopNext THEN "step" ELSE "top"]

\* the top of the loop to the halt state: checkInterruptsAndEvents returns
\* an error, or has stopped the debugger, or has cleared runUntilHalt, or
\* found nothing; then the halt conditions
LoopIteration ==
    /\ il.pc = "top"
    /\ \E event \in {"none", "interrupt", "quit", "error"}, messages \in BOOLEAN :
        LET d == Met(il, "top", event, {})
            e == CASE event = "interrupt" -> [d EXCEPT !.runUntilHalt = FALSE]
                   [] event = "quit" -> [d EXCEPT !.running = FALSE]
                   [] OTHER -> d
            halt == HaltCondition(e, messages) \/ ~e.runUntilHalt
        IN  il' = IF event = "error" THEN Return(d, "err")
                  ELSE IF ~e.running THEN Return(e, "nil")
                  ELSE IF e.videoCycle /\ e.inputloopNext THEN Return(e, "nil")
                  ELSE IF halt
                  THEN [e EXCEPT !.inputloopHalt = TRUE, !.lastStepError = FALSE,
                                 !.paused = TRUE, !.runUntilHalt = FALSE,
                                 !.pc = "prompt"]
                  ELSE [e EXCEPT !.inputloopHalt = FALSE, !.lastStepError = FALSE,
                                 !.pc = "step"]
    /\ UNCHANGED notIl

\* UserRead at the prompt: a command, or an error
UserRead ==
    /\ il.pc = "prompt"
    /\ \E input \in {"RUN", "STEP", "CPU", "SCRIPT RECORD", "EXIT", "UserInterrupt",
                      "ScriptEnd", "GUIError", "io"} :
        LET d == Met(il, "prompt", input, {})
        IN  il' = CASE input = "io" -> Return(d, "err")
                    [] input = "GUIError" -> Return(d, "err")
                    [] input = "ScriptEnd" ->
                        Return(IF d.videoCycle THEN d
                               ELSE Met(il, "prompt", input, {"ScriptEnd"}), "nil")
                    [] input = "UserInterrupt" ->
                        IF d.recording
                        THEN [parseInput(d, "SCRIPT END") EXCEPT !.inputloopNext = d.inputloopNext,
                                                                 !.pc = "top"]
                        ELSE [d EXCEPT !.pc = "confirm"]
                    [] OTHER -> AfterRead(d, input)
    /\ UNCHANGED notIl

\* UserRead at "really quit (y/n)"; after a refusal the loop goes on to parse
\* what the input buffer holds
Confirm ==
    /\ il.pc = "confirm"
    /\ \E answer \in {"y", "n", "UserInterrupt", "io"}, held \in {"STEP", "CPU"} :
        LET d == Met(il, "confirm", answer, IF answer = "io" THEN {"error"} ELSE {})
        IN  il' = IF Confirmed(answer)
                  THEN AfterRead([parseInput(d, "EXIT") EXCEPT !.inputloopNext = d.inputloopNext],
                                 held)
                  ELSE AfterRead(d, held)
    /\ UNCHANGED notIl

\* vcs.Step and what it returned: nil, an error of a known kind, an error of
\* an unknown kind, or a result that is not valid
StepEmulation ==
    /\ il.pc = "step"
    /\ \E result \in {"nil", "known", "unknown", "invalid"} :
        LET d == Met(il, "step", result, IF result = "nil" THEN {} ELSE {"error"})
        IN  il' = IF d.videoCycle THEN Return(Met(il, "step", "", {}), "nil")
                  ELSE CASE result = "unknown" -> Return(d, "err")
                         [] result = "invalid" -> Return(d, "err")
                         [] result = "known" -> [d EXCEPT !.lastStepError = TRUE, !.pc = "top"]
                         [] OTHER -> [d EXCEPT !.pc = "top"]
    /\ UNCHANGED notIl

\* the loop entered from videoCycleWithInput has returned nil: vcs.Step goes
\* on with the next video cycle of the instruction and calls it again
videoCycleWithInput ==
    /\ il.videoCycle /\ il.pc = "returned" /\ il.ret = "nil"
    /\ il.left > 0
    /\ il' = [Met(il, "cycle", IF il.paused THEN "paused" ELSE "", {})
                EXCEPT !.left = @ - 1, !.pc = "top", !.ret = ""]
    /\ UNCHANGED notIl

NextInputLoop == LoopIteration \/ UserRead \/ Confirm \/ StepEmulation
                    \/ videoCycleWithInput

InitInputLoop ==
    /\ tia = NewTIA(0)
    /\ vcs = NewVCS
    /\ mc = NewMC
    /\ dbg = NewDbg(PlainSymbols)
    /\ ctl = NewHandController(0)
    /\ lz = newLazyControllers
    /\ dg = NewDebugger
    /\ \E videoCycle \in BOOLEAN, left \in 0..MaxCyclesLeft :
        il = [NewInputLoop(videoCycle) EXCEPT !.left = IF videoCycle THEN left ELSE 0]
    /\ pt = NoPatch
    /\ pa = NoPath
    /\ tc = NewTabCompletion
    /\ pi = NoParse
    /\ cm = NewCommands
    /\ sd = NoDigest

SpecInputLoop == InitInputLoop /\ [][NextInputLoop]_vars

(***************************************************************************)
(* patch.CartridgeMemory.                                                  *)
(***************************************************************************)
\* unicode.IsSpace, on the characters of the model
IsSpace(c) == c \in {" ", "\t", "\r"}

\* strings.TrimSpace
TrimSpace(s) ==
    LET first == {i \in 1..Len(s) : ~IsSpace(s[i])}
    IN  IF first = {} THEN <<>>
        ELSE SubSeq(s, CHOOSE i \in first : \A j \in first : i <= j,
                       CHOOSE i \in first : \A j \in first : i >= j)

RECURSIVE Split(_, _)
\* strings.Split(s, sep), sep a character
Split(s, sep) ==
    LET at == {i \in 1..Len(s) : s[i] = sep}
    IN  IF at = {} THEN <<s>>
        ELSE LET i == CHOOSE i \in at : \A j \in at : i <= j
             IN  <<SubSeq(s, 1, i - 1)>> \o Split(SubSeq(s, i + 1, Len(s)), sep)

HexDigits == <<"0", "1", "2", "3", "4", "5", "6", "7", "8", "9",
               "a", "b", "c", "d", "e", "f">>

RECURSIVE HexValue(_)
HexValue(s) ==
    IF s = <<>> THEN 0
    ELSE 16 * HexValue(SubSeq(s, 1, Len(s) - 1))
         + (CHOOSE d \in 1..16 : HexDigits[d] = s[Len(s)]) - 1

\* strconv.ParseInt(s, 16, 16) and strconv.ParseUint(s, 16, 8): limit is the
\* first value out of range
ParseHex(s, limit) ==
    IF s = <<>> \/ \E i \in 1..Len(s) : \A d \in 1..16 : HexDigits[d] # s[i]
    THEN [ok |-> FALSE, n |-> 0]
    ELSE [ok |-> HexValue(s) < limit, n |-> HexValue(s)]

\* cartridge.Patch: an address that is not of the cartridge is an error and
\* nothing is written
Patch(r, address, v) ==
    IF address < CartSize
    THEN [r EXCEPT !.writes = Append(@, <<address, v>>)]
    ELSE [r EXCEPT !.err = "PatchError"]

\* a byte written that does not count as a patch
Applied_NoFlag(r) == [r EXCEPT !.address = @ + 1]

\* after mem.Patch returned nil: patched = true; address++
Applied(r) == [r EXCEPT !.patched = TRUE, !.address = @ + 1]

RECURSIVE PokeValues(_, _)
\* the inner loop over the values of a line
PokeValues(r, values) ==
    IF values = <<>> \/ r.err # "nil" THEN r
    ELSE LET v == ParseHex(TrimSpace(Head(values)), 256)
         IN  IF ~v.ok THEN PokeValues(r, Tail(values))
             ELSE LET w == Patch(r, r.address, v.n)
                  IN  IF w.err # "nil" THEN w
                      ELSE PokeValues(Applied(w), Tail(values))

RECURSIVE PatchLines(_, _)
\* the loop over the lines
PatchLines(r, lines) ==
    IF lines = <<>> \/ r.err # "nil" THEN r
    ELSE LET line == Head(lines)
             pokeLine == Split(line, ":")
             address == ParseHex(TrimSpace(pokeLine[1]), 32768)
         IN  IF line = <<>> THEN PatchLines(r, Tail(lines))
             ELSE IF line[1] = "-" \/ IsSpace(line[1]) THEN PatchLines(r, Tail(lines))
             ELSE IF Len(pokeLine) # 2 THEN PatchLines(r, Tail(lines))
             ELSE IF ~address.ok THEN PatchLines(r, Tail(lines))
             ELSE PatchLines(PokeValues([r EXCEPT !.address = address.n],
                                        Split(TrimSpace(pokeLine[2]), " ")),
                             Tail(lines))

\* CartridgeMemory once the file is read: patched, the error, and as writes
\* the bytes that mem.Patch wrote
CartridgeMemory(lines) ==
    PatchLines([patched |-> FALSE, err |-> "nil", address |-> 0, writes |-> <<>>],
               lines)

\* ADDR: VAL [VAL...] with whitespace before ADDR, around the colon,
\* between the values and at the end
PokeLine(ws0, addr, ws1, ws2, values, sep, ws3) ==
    ws0 \o addr \o ws1 \o <<":">> \o ws2 \o values[1]
        \o (IF Len(values) > 1 THEN sep \o values[2] ELSE <<>>) \o ws3

\* lines that are no poke line: empty, a comment, no colon, two colons, an
\* address that is no number
OtherLines ==
    { <<>>, <<"-", " ", "1", ":", "1">>, <<"1", " ", "2">>,
      <<"1", ":", "2", ":", "3">>, <<"g", ":", "1">> }

\* the patch files: a line of OtherLines or a poke line or none, and then
\* a poke line with whitespace
PatchFiles ==
    LET Values == {<<"1">>, <<"f", "f">>, <<"g">>}
        Lists == {<<v>> : v \in Values} \cup {<<v, w>> : v, w \in Values}
        Firsts == {<<>>} \cup {<<l>> : l \in OtherLines}
                    \cup {<<PokeLine(<<>>, <<"0">>, <<>>, <<" ">>, <<<<"2">>>>, <<" ">>, <<>>)>>}
    IN  { [lines |-> first \o <<PokeLine(ws0, addr, ws1, ws2, values, sep, ws3)>>,
           plain |-> first \o <<PokeLine(<<>>, addr, <<>>, <<" ">>, values, <<" ">>, <<>>)>>] :
            first \in Firsts,
            ws0 \in {<<>>, <<" ">>}, addr \in {<<"0">>, <<"3">>, <<"1", "0">>},
            ws1 \in {<<>>, <<" ">>}, ws2 \in {<<>>, <<" ">>},
            values \in Lists, sep \in {<<" ">>, <<" ", " ">>, <<"\t">>},
            ws3 \in {<<>>, <<" ">>, <<"\r">>} }

\* PATCH <file>
DoPatch ==
    /\ ~pt.done
    /\ LET r == CartridgeMemory(pt.lines)
       IN  pt' = [pt EXCEPT !.done = TRUE, !.patched = r.patched, !.err = r.err,
                            !.writes = r.writes,
                            !.plainWrites = CartridgeMemory(pt.plain).writes]
    /\ UNCHANGED notPt

InitPatch ==
    /\ tia = NewTIA(0)
    /\ vcs = NewVCS
    /\ mc = NewMC
    /\ dbg = NewDbg(PlainSymbols)
    /\ ctl = NewHandController(0)
    /\ lz = newLazyControllers
    /\ dg = NewDebugger
    /\ il = NewInputLoop(FALSE)
    /\ \E file \in PatchFiles :
        pt = [NoPatch EXCEPT !.lines = file.lines, !.plain = file.plain]
    /\ pa = NoPath
    /\ tc = NewTabCompletion
    /\ pi = NoParse
    /\ cm = NewCommands
    /\ sd = NoDigest

SpecPatch == InitPatch /\ [][DoPatch]_vars

(***************************************************************************)
(* paths.ResourcePath and getBasePath.                                     *)
(***************************************************************************)
\* path.Join of paths whose names hold no separator and no dot name: the
\* names that are not empty, in order
Join(paths) ==
    LET RECURSIVE Names(_)
        Names(ps) == IF ps = <<>> THEN <<>>
                     ELSE SelectSeq(Head(ps), LAMBDA n : n # <<>>) \o Names(Tail(ps))
    IN  Names(paths)

\* the base name kept whole inside the configuration home
getBasePath_Dotted(env) ==
    IF env.stat # "none" THEN <<baseResourcePath>>
    ELSE IF env.home.err THEN <<baseResourcePath>>
    ELSE Join(<<env.home.dir, <<baseResourcePath>>>>)

getBasePath(env) ==
    IF env.stat # "none" THEN <<baseResourcePath>>
    ELSE IF env.home.err THEN <<baseResourcePath>>
    ELSE Join(<<env.home.dir, <<Tail(baseResourcePath)>>>>)

ResourcePath(env, resource) == Join(<<getBasePath(env), resource>>)

\* the working directory holds nothing of the base name, or a directory, or
\* a file; the configuration home is known or not; the resources asked for
Environments ==
    [stat : {"none", "dir", "file"},
     home : {[err |-> TRUE, dir |-> <<>>],
             [err |-> FALSE, dir |-> <<<<"h">>, <<".", "c">>>>],
             [err |-> FALSE, dir |-> <<<<"r">>>>]},
     resource : {<<>>, <<<<"p">>>>, <<<<"p">>, <<"f">>>>, <<<<"c">>, <<>>, <<"g">>>>,
                 <<<<>>>>, <<<<"s">>, <<"a">>, <<"b">>>>, <<<<".", "x">>>>}]

DoResourcePath ==
    /\ ~pa.done
    /\ pa' = [pa EXCEPT !.done = TRUE, !.base = getBasePath(pa),
                        !.path = ResourcePath(pa, pa.resource)]
    /\ UNCHANGED notPa

InitPaths ==
    /\ tia = NewTIA(0)
    /\ vcs = NewVCS
    /\ mc = NewMC
    /\ dbg = NewDbg(PlainSymbols)
    /\ ctl = NewHandController(0)
    /\ lz = newLazyControllers
    /\ dg = NewDebugger
    /\ il = NewInputLoop(FALSE)
    /\ pt = NoPatch
    /\ \E env \in Environments :
        pa = [NoPath EXCEPT !.stat = env.stat, !.home = env.home,
                            !.resource = env.resource]
    /\ tc = NewTabCompletion
    /\ pi = NoParse
    /\ cm = NewCommands
    /\ sd = NoDigest

SpecPaths == InitPaths /\ [][DoResourcePath]_vars

(***************************************************************************)
(* TabCompletion.Complete.  The Tokens type is not among the sources: its  *)
(* operations are taken as their names say, tokens being the fields of the *)
(* input between spaces.                                                   *)
(***************************************************************************)
LowerCase == <<"a", "b", "c", "d", "e", "f", "g", "h", "i", "j", "k", "l", "m",
               "n", "o", "p", "q", "r", "s", "t", "u", "v", "w", "x", "y", "z">>

UpperCase == <<"A", "B", "C", "D", "E", "F", "G", "H", "I", "J", "K", "L", "M",
               "N", "O", "P", "Q", "R", "S", "T", "U", "V", "W", "X", "Y", "Z">>

\* strings.ToUpper
ToUpperCase(s) ==
    [i \in 1..Len(s) |->
        IF \E k \in 1..26 : LowerCase[k] = s[i]
        THEN UpperCase[CHOOSE k \in 1..26 : LowerCase[k] = s[i]]
        ELSE s[i]]

\* strings.HasSuffix(s, " ")
HasSuffixSpace(s) == s # <<>> /\ s[Len(s)] = " "

\* commandline.TokeniseInput
TokeniseInput(input) == SelectSeq(Split(input, " "), LAMBDA f : f # <<>>)

RECURSIVE TokensString(_)
\* Tokens.String
TokensString(tokens) ==
    IF tokens = <<>> THEN <<>>
    ELSE IF Len(tokens) = 1 THEN tokens[1]
    ELSE tokens[1] \o <<" ">> \o TokensString(Tail(tokens))

\* Tokens.ReplaceEnd
ReplaceEnd(tokens, s) == [tokens EXCEPT ![Len(tokens)] = s]

\* Tokens.Unget on the cursor
Unget(b) == [b EXCEPT !.curr = IF @ > 0 THEN @ - 1 ELSE @]

\* Tokens.IsEnd
IsEnd(b) == b.curr >= Len(b.tokens)

\* a node of the command templates
Node(tag, next, branch, optional) ==
    [tag |-> tag, next |-> next, branch |-> branch, optional |-> optional]

Keyword(tag) == Node(tag, <<>>, <<>>, FALSE)

\* STEP [CPU|VIDEO], SCRIPT %S, SYMBOL, RESET, RUN
Commands ==
    <<Node(<<"R", "E", "S", "E", "T">>, <<>>, <<>>, FALSE),
      Node(<<"R", "U", "N">>, <<>>, <<>>, FALSE),
      Node(<<"S", "C", "R", "I", "P", "T">>,
           <<Node(<<"%", "S">>, <<>>, <<>>, FALSE)>>, <<>>, FALSE),
      Node(<<"S", "T", "E", "P">>,
           <<Node(<<"C", "P", "U">>, <<>>,
                  <<Keyword(<<"V", "I", "D", "E", "O">>)>>, TRUE)>>, <<>>, FALSE),
      Node(<<"S", "Y", "M", "B", "O", "L">>, <<>>, <<>>, FALSE)>>

\* append to tc.matches and point tc.match at the first
AddMatch(b, s) == [b EXCEPT !.matches = Append(@, s), !.match = 0]

\* the partial match of a token with a tag
Partial(b, tok, tag) ==
    IsEnd(b) /\ Len(tok) < Len(tag) /\ tok = SubSeq(tag, 1, Len(tok))

RECURSIVE buildMatches(_, _)
RECURSIVE buildBranches(_, _)
RECURSIVE buildNext(_, _)
\* the loop over n.branch
buildBranches(branch, b) ==
    IF branch = <<>> THEN b
    ELSE buildBranches(Tail(branch), buildMatches(Head(branch), Unget(b)))

\* the loop over n.next
buildNext(next, b) ==
    IF next = <<>> THEN b
    ELSE buildNext(Tail(next), buildMatches(Head(next), b))

\* b holds the tokens, their cursor, and tc.matches and tc.match
buildMatches(n, b) ==
    IF b.curr >= Len(b.tokens) THEN b
    ELSE LET got == [b EXCEPT !.curr = @ + 1]
             raw == b.tokens[b.curr + 1]
             tok == IF n.tag = <<"%", "S">> THEN raw ELSE ToUpperCase(raw)
             match == IF n.tag = <<"%", "S">> THEN FALSE ELSE tok = n.tag
             Matched(c) == IF IsEnd(c) THEN AddMatch(c, tok)
                           ELSE buildNext(n.next, c)
         IN  IF n.tag = <<"%", "*">> THEN got
             ELSE IF match THEN Matched(got)
             ELSE LET part == IF Partial(got, tok, n.tag)
                              THEN AddMatch(got, n.tag) ELSE got
                  IN  IF n.branch = <<>> THEN part
                      ELSE LET tokenAt == part.curr
                               after == buildBranches(n.branch, part)
                           IN  IF n.optional /\ Len(after.matches) = 0
                                  /\ tokenAt = after.curr
                               THEN Matched(Unget(after))
                               ELSE after

\* TabCompletion.Reset
ResetTab(t) == [t EXCEPT !.matches = <<>>, !.match = -1]

\* the closure endGuess of Complete
endGuess(t, tokens, input) ==
    LET last == IF t.match >= 0
                THEN TokensString(ReplaceEnd(tokens, t.matches[t.match + 1])) \o <<" ">>
                ELSE input
    IN  [t EXCEPT !.lastCompletion = last, !.result = last]

\* the cycle wraps to the second match
NextMatch_Second(t) ==
    IF t.match + 1 >= Len(t.matches)
    THEN (IF Len(t.matches) > 1 THEN 1 ELSE 0)
    ELSE t.match + 1

\* tc.match++ and the wrap
NextMatch(t) ==
    IF t.match + 1 >= Len(t.matches) THEN 0 ELSE t.match + 1

RECURSIVE LookForMatch(_, _, _, _)
\* the loop over the commands; b is the cursor after the first Get
LookForMatch(commands, b, tok, t) ==
    IF commands = <<>> THEN [t EXCEPT !.matches = b.matches, !.match = b.match]
    ELSE LET n == Head(commands)
         IN  IF tok = n.tag
             THEN LET c == buildMatches(n, Unget([b EXCEPT !.matches = <<>>,
                                                           !.match = -1]))
                  IN  [t EXCEPT !.matches = c.matches, !.match = c.match]
             ELSE LookForMatch(Tail(commands),
                               IF Partial(b, tok, n.tag) THEN AddMatch(b, n.tag) ELSE b,
                               tok, t)

\* TabCompletion.Complete: the result is in the field result
Complete(t, input) ==
    LET tokens == TokeniseInput(input)
        in == [t EXCEPT !.input = input]
    IN  IF t.lastCompletion = input /\ t.match >= 0
        THEN LET c == endGuess([in EXCEPT !.match = NextMatch(t)], tokens, input)
             IN  [c EXCEPT !.session.calls = IF @ < MaxTabs THEN @ + 1 ELSE @]
        ELSE LET r == ResetTab(in)
                 done ==
                    IF HasSuffixSpace(input) \/ tokens = <<>>
                    THEN [r EXCEPT !.result = input]
                    ELSE endGuess(LookForMatch(Commands,
                                      [tokens |-> tokens, curr |-> 1,
                                       matches |-> <<>>, match |-> -1],
                                      ToUpperCase(tokens[1]), r),
                                  tokens, input)
             IN  [done EXCEPT !.session = [calls |-> 1, first |-> done.result,
                                           matches |-> done.matches]]

\* what the user types
TypedInputs ==
    {<<>>, <<"s">>, <<"S", "t">>, <<"r">>, <<"r", "e">>, <<"x">>, <<"s", " ">>,
     <<"S", "T", "E", "P">>, <<"s", "t", "e", "p", " ", "c">>,
     <<"s", "t", "e", "p", " ", " ", "v">>, <<"s", "t", "e", "p", " ", "x">>,
     <<"s", "c", "r", "i", "p", "t", " ", "%">>, <<"R", "U", "N", " ">>,
     <<"s", "y">>}

\* the user types an input and asks for its completion
CompleteTyped ==
    /\ \E input \in TypedInputs : tc' = Complete(tc, input)
    /\ UNCHANGED notTc

\* the user asks again, with what the last call returned
CompleteAgain ==
    /\ tc.session.calls > 0
    /\ tc' = Complete(tc, tc.result)
    /\ UNCHANGED notTc

\* the user ends the session
ResetCompletion ==
    /\ tc.session.calls > 0
    /\ tc' = [ResetTab(tc) EXCEPT !.session = NewTabCompletion.session]
    /\ UNCHANGED notTc

NextTab == CompleteTyped \/ CompleteAgain \/ ResetCompletion

SpecTab == Init /\ [][NextTab]_vars

(***************************************************************************)
(* parseInput with script recording.  parseCommand of this revision and    *)
(* the script scribe are not among the sources: a command is taken by the  *)
(* parseCommandResult it returns, and the scribe by the names of its       *)
(* functions.                                                              *)
(***************************************************************************)
\* scriptScribe.WriteInput: the line before is committed, this one waits
WriteInput(p, command) ==
    IF ~p.scribe.active THEN p
    ELSE [p EXCEPT !.scribe.lines = IF p.scribe.pending = "" THEN @
                                    ELSE Append(@, p.scribe.pending),
                   !.scribe.pending = command]

\* scriptScribe.Rollback: the line that waits is dropped
Rollback(p) == IF ~p.scribe.active THEN p ELSE [p EXCEPT !.scribe.pending = ""]

\* the result of parseCommand, "error" for a command that fails
parseCommandResult(command) ==
    CASE command \in {"STEP", "RUN"} -> "stepContinue"
      [] command = "STEP VIDEO" -> "setDefaultStep"
      [] command = "" -> "emptyInput"
      [] command = "CPU" -> "doNothing"
      [] command = "SCRIPT RECORD" -> "scriptRecordStarted"
      [] command = "SCRIPT END" -> "scriptRecordEnded"
      [] OTHER -> "error"

\* what parseCommand does to the scribe
Enact(p, command) ==
    LET q == [p EXCEPT !.executed = Append(@, command)]
    IN  CASE command = "SCRIPT RECORD" -> [q EXCEPT !.scribe.active = TRUE]
          [] command = "SCRIPT END" ->
                [Rollback(q) EXCEPT !.scribe.active = FALSE]
          [] OTHER -> q

RECURSIVE parseInputLoop(_, _, _)
\* the loop of parseInput over the commands left
parseInputLoop(p, commands, step) ==
    IF commands = <<>> THEN [p EXCEPT !.done = TRUE, !.step = step]
    ELSE LET command == Head(commands)
             w == IF p.auto THEN p ELSE WriteInput(p, command)
             result == parseCommandResult(command)
             q == Enact(w, command)
         IN  CASE result = "error" ->
                    [Rollback(q) EXCEPT !.done = TRUE, !.step = FALSE, !.err = TRUE]
               [] result = "stepContinue" -> parseInputLoop(q, Tail(commands), TRUE)
               [] result = "emptyInput" ->
                    IF p.interactive
                    THEN parseInputLoop(q, <<p.defaultStepCommand>>, FALSE)
                    ELSE [q EXCEPT !.done = TRUE, !.step = FALSE]
               [] result = "setDefaultStep" ->
                    parseInputLoop([q EXCEPT !.defaultStepCommand = command],
                                   Tail(commands), TRUE)
               [] result = "scriptRecordStarted" ->
                    parseInputLoop(Rollback(q), Tail(commands), step)
               [] OTHER -> parseInputLoop(q, Tail(commands), step)

\* parseInput: an input that begins with # is a comment
parseInputRecording(p) ==
    IF p.commands[1] = "#" THEN [p EXCEPT !.done = TRUE, !.step = FALSE]
    ELSE parseInputLoop(p, p.commands, FALSE)

CommandWords ==
    {"STEP", "RUN", "STEP VIDEO", "", "CPU", "SCRIPT RECORD", "SCRIPT END", "FOO"}

\* the inputs: up to MaxCommands commands, or a comment
ParseInputs ==
    {<<"#">>} \cup UNION {[1..n -> CommandWords] : n \in 1..MaxCommands}

DoParseInput ==
    /\ ~pi.done
    /\ pi' = parseInputRecording(pi)
    /\ UNCHANGED notPi

InitParseInput ==
    /\ tia = NewTIA(0)
    /\ vcs = NewVCS
    /\ mc = NewMC
    /\ dbg = NewDbg(PlainSymbols)
    /\ ctl = NewHandController(0)
    /\ lz = newLazyControllers
    /\ dg = NewDebugger
    /\ il = NewInputLoop(FALSE)
    /\ pt = NoPatch
    /\ pa = NoPath
    /\ tc = NewTabCompletion
    /\ \E commands \in ParseInputs, interactive \in BOOLEAN, auto \in BOOLEAN,
          active \in BOOLEAN :
        pi = [NoParse EXCEPT !.commands = commands, !.interactive = interactive,
                             !.auto = auto, !.scribe.active = active]
    /\ cm = NewCommands
    /\ sd = NoDigest

SpecParseInput == InitParseInput /\ [][DoParseInput]_vars

(***************************************************************************)
(* parseCommand (debugger/commands.go:72-459).  The command templates,     *)
(* the Tokens type and the script scribe are not among the sources: RUN    *)
(* and SCRIPT RECORD are taken to be the commands of the script-unsafe     *)
(* template, and the scribe is taken by the names of its functions (a      *)
(* session cannot be started while one is active, nor ended while none     *)
(* is).                                                                    *)
(***************************************************************************)
Cmd(name, args) == [name |-> name, args |-> args]

\* the first token and, of SCRIPT, the second
Words(cmd) ==
    IF cmd.name = "SCRIPT" THEN cmd.name \o " " \o cmd.args[1] ELSE cmd.name

\* scriptUnsafeCommands.ValidateTokens returns no error
ScriptUnsafe(cmd) == Words(cmd) \in {"RUN", "SCRIPT RECORD"}

\* debuggerCommands.ValidateTokens returns no error
ValidCommand(cmd) ==
    cmd.name \in {"HELP", "QUIT", "RESET", "RUN", "STEP", "SCRIPT", "CPU", "ONHALT"}

\* scriptScribe.EndSession: the line that waits is committed
EndSession(c) ==
    [c EXCEPT !.scribe.active = FALSE,
              !.scribe.lines = IF c.scribe.pending = "" THEN @
                               ELSE Append(@, c.scribe.pending),
              !.scribe.pending = ""]

\* strings.Replace(newOnHalt, ",", ";", -1)
ReplaceCommas(s) == [i \in 1..Len(s) |-> IF s[i] = "," THEN ";" ELSE s[i]]

\* ONHALT OFF that forgets the stored sequence too
OnHalt_Forget(c, args) ==
    IF args = <<>> THEN c
    ELSE IF args[1] = "OFF"
    THEN [c EXCEPT !.commandOnHalt = <<>>, !.commandOnHaltStored = <<>>]
    ELSE LET newOnHalt == IF args[1] = "ON" THEN c.commandOnHaltStored
                          ELSE ReplaceCommas(args)
         IN  [c EXCEPT !.commandOnHalt = newOnHalt,
                       !.commandOnHaltStored = IF newOnHalt = <<>> THEN @ ELSE newOnHalt,
                       !.lastSet = IF args[1] = "ON" THEN @ ELSE newOnHalt]

\* case cmdOnHalt; lastSet keeps the sequence that ONHALT <sequence> set last
OnHalt(c, args) ==
    IF args = <<>> THEN c
    ELSE LET newOnHalt == CASE args[1] = "OFF" -> <<>>
                            [] args[1] = "ON" -> c.commandOnHaltStored
                            [] OTHER -> ReplaceCommas(args)
         IN  [c EXCEPT !.commandOnHalt = newOnHalt,
                       !.commandOnHaltStored = IF newOnHalt = <<>> THEN @ ELSE newOnHalt,
                       !.lastSet = IF args[1] \in {"OFF", "ON"} THEN @ ELSE newOnHalt]

\* the switch on the first token; the command is valid
EnactValid(c, cmd) ==
    LET Done(d, ret, err) == [d EXCEPT !.last.executed = TRUE, !.last.ret = ret,
                                       !.last.err = err]
    IN  CASE cmd.name = "HELP" -> Done(Rollback(c), FALSE, "nil")
          [] cmd.name = "QUIT" ->
                IF c.scribe.active THEN Done(EndSession(Rollback(c)), FALSE, "nil")
                ELSE Done([c EXCEPT !.running = FALSE], FALSE, "nil")
          [] cmd.name = "RUN" -> Done([c EXCEPT !.runUntilHalt = TRUE], TRUE, "nil")
          [] cmd.name = "STEP" -> Done(c, TRUE, "nil")
          [] cmd.name = "SCRIPT" /\ cmd.args[1] = "RECORD" ->
                IF c.scribe.active THEN Done(c, FALSE, "ScriptError")
                ELSE Done(Rollback([c EXCEPT !.scribe.active = TRUE,
                                             !.scribe.lines = <<>>]), FALSE, "nil")
          [] cmd.name = "SCRIPT" /\ cmd.args[1] = "END" ->
                IF c.scribe.active THEN Done(EndSession(Rollback(c)), FALSE, "nil")
                ELSE Done(Rollback(c), FALSE, "ScriptError")
          [] cmd.name = "ONHALT" -> Done(OnHalt(c, cmd.args), FALSE, "nil")
          [] OTHER -> Done(c, FALSE, "nil")

\* parseCommand(cmd, scribe, echo) from the validation on
EnactTokens(c, cmd, scribe) ==
    IF ~ValidCommand(cmd) THEN [c EXCEPT !.last.err = "ValidationError"]
    ELSE IF c.scribe.active /\ scribe
    THEN IF ScriptUnsafe(cmd) THEN [c EXCEPT !.last.err = "CommandError"]
         ELSE EnactValid(WriteInput(c, Words(cmd)), cmd)
    ELSE EnactValid(c, cmd)

\* parseCommand: input with no token in it is onEmptyInput, STEP
enactCommand(c, cmd, scribe) ==
    LET d == [c EXCEPT !.last = [NoCommand EXCEPT !.cmd = cmd, !.scribe = scribe,
                                                  !.active = c.scribe.active,
                                                  !.onHalt = c.commandOnHalt]]
    IN  IF cmd.name = "" THEN EnactTokens(d, Cmd("STEP", <<>>), TRUE)
        ELSE EnactTokens(d, cmd, scribe)

\* the sequences given to ONHALT
Sequences == {<<"CPU">>, <<"CPU", ",", "TIA">>, <<"TIA", ",", "RUN">>}

EnteredCommands ==
    {Cmd(n, <<>>) : n \in {"", "HELP", "QUIT", "RESET", "RUN", "STEP", "CPU", "FOO", "ONHALT"}}
        \cup {Cmd("SCRIPT", <<a>>) : a \in {"RECORD", "END"}}
        \cup {Cmd("ONHALT", a) : a \in {<<"OFF">>, <<"ON">>} \cup Sequences}

\* a command from the user (scribe) or of an auto-command sequence
ParseCommand ==
    /\ cm.running
    /\ Len(cm.scribe.lines) < MaxScriptLines
    /\ \E cmd \in EnteredCommands, scribe \in BOOLEAN :
        cm' = enactCommand(cm, cmd, scribe)
    /\ UNCHANGED notCm

SpecCommands == Init /\ [][ParseCommand]_vars

(***************************************************************************)
(* The screen digest (part_004).  Television.ClocksPerScanline and the    *)
(* television's specification are not in src/: a scanline has 228 color   *)
(* clocks, and the number of scanlines is a bound.  crypto/sha1 is the Go *)
(* library: Sum stands in for sha1.Sum with a checksum of sha1.Size bytes.*)
(***************************************************************************)

\* the most SetPixel and NewFrame calls of a behaviour
MaxPixels == 2
MaxFrames == 2

\* television.ClocksPerScanline and GetSpec().ScanlinesTotal
ClocksPerScanline == 228
ScanlinesTotal == 1

\* sha1.Size (part_004:19)
sha1Size == 20

Zeros(n) == [i \in 1..n |-> 0]

\* the weighted sum of data[lo..hi], modulo 2^16
RECURSIVE Weighted(_, _, _)
Weighted(data, lo, hi) ==
    IF lo > hi THEN 0
    ELSE IF lo = hi THEN (data[lo] * lo) % 65536
    ELSE LET mid == (lo + hi) \div 2
         IN  (Weighted(data, lo, mid) + Weighted(data, mid + 1, hi)) % 65536

\* sha1.Sum (part_004:86): sha1.Size bytes that depend on every byte hashed
Sum(data) ==
    LET w == Weighted(data, 1, Len(data))
    IN  [i \in 1..sha1Size |-> (w * i + Len(data) + i) % 256]

\* part_004:73-76
Resize(d) ==
    [d EXCEPT !.frameData =
                 Zeros(Len(d.digest)
                        + ((ClocksPerScanline + 1) * (ScanlinesTotal + 1) * 3)),
              !.set = {},
              !.last = [at |-> "Resize", err |-> "nil", offset |-> 0]]

\* part_004:27-59
NewSHA1 == Resize([NoDigest EXCEPT !.digest = Zeros(sha1Size)])

\* copy(dst, src): the bytes copied are the shorter of the two lengths
copy(dst, src) ==
    LET n == IF Len(dst) < Len(src) THEN Len(dst) ELSE Len(src)
    IN  [n |-> n,
         dst |-> [i \in 1..Len(dst) |-> IF i <= n THEN src[i] ELSE dst[i]]]

\* part_004:79-89
NewFrame(d, frameNum) ==
    LET c == copy(d.frameData, d.digest)
        e == [d EXCEPT !.frameData = c.dst, !.frames = @ + 1]
    IN  IF c.n # Len(d.digest)
        THEN [e EXCEPT !.last = [at |-> "NewFrame", err |-> "ScreenDigest",
                                 offset |-> 0]]
        ELSE [e EXCEPT !.digest = Sum(c.dst),
                       !.frameNum = frameNum,
                       !.last = [at |-> "NewFrame", err |-> "nil",
                                 offset |-> 0]]

\* part_004:99-100
PixelOffset(x, y) == (ClocksPerScanline * y * 3) + (x * 3)

\* part_004:106-108: the bytes are written one after the other, and a write
\* outside of the slice panics
RECURSIVE WriteBytes(_, _, _)
WriteBytes(d, offset, bytes) ==
    IF bytes = <<>> THEN d
    ELSE IF offset < 0 \/ offset >= Len(d.frameData)
         THEN [d EXCEPT !.last.err = "panic"]
         ELSE WriteBytes([d EXCEPT !.frameData[offset + 1] = Head(bytes)],
                         offset + 1, Tail(bytes))

\* part_004:97-111
SetPixel(d, x, y, red, green, blue) ==
    LET offset == PixelOffset(x, y)
        e == [d EXCEPT !.pixels = @ + 1,
                       !.last = [at |-> "SetPixel", err |-> "nil",
                                 offset |-> offset]]
    IN  IF offset >= Len(d.frameData)
        THEN [e EXCEPT !.last.err = "ScreenDigest"]
        ELSE LET w == WriteBytes(e, offset, <<red, green, blue>>)
             IN  IF w.last.err # "nil" THEN w
                 ELSE [w EXCEPT !.set = {p \in @ : p[1] # offset}
                                          \cup {<<offset, <<red, green, blue>>>>}]

\* the last pixel whose first byte is in frameData, and the one after it
EdgePixel == (sha1Size + ((ClocksPerScanline + 1) * (ScanlinesTotal + 1) * 3)) \div 3

\* the first pixels of a scanline, the pixels at the end of the digest's
\* bytes, and the pixels at the end of frameData
PixelsX == {0, 6, 7, EdgePixel, EdgePixel + 1}
PixelsY == {0, 1}
Colours == {<<1, 2, 3>>, <<255, 0, 7>>}

DoSetPixel ==
    /\ sd.last.err # "panic"
    /\ sd.pixels < MaxPixels
    /\ \E x \in PixelsX, y \in PixelsY, c \in Colours :
           sd' = SetPixel(sd, x, y, c[1], c[2], c[3])
    /\ UNCHANGED notSd

DoNewFrame ==
    /\ sd.last.err # "panic"
    /\ sd.frames < MaxFrames
    /\ sd' = NewFrame(sd, sd.frameNum + 1)
    /\ UNCHANGED notSd

DoResize ==
    /\ sd.last.err # "panic"
    /\ sd.last.at # "Resize"
    /\ sd' = Resize(sd)
    /\ UNCHANGED notSd

NextDigest == DoSetPixel \/ DoNewFrame \/ DoResize

InitDigest ==
    /\ tia = NewTIA(0)
    /\ vcs = NewVCS
    /\ mc = NewMC
    /\ dbg = NewDbg(PlainSymbols)
    /\ ctl = NewHandController(0)
    /\ lz = newLazyControllers
    /\ dg = NewDebugger
    /\ il = NewInputLoop(FALSE)
    /\ pt = NoPatch
    /\ pa = NoPath
    /\ tc = NewTabCompletion
    /\ pi = NoParse
    /\ cm = NewCommands
    /\ sd = NewSHA1

SpecDigest == InitDigest /\ [][NextDigest]_vars

(***************************************************************************)
(* Properties of VCS.Step (Spec).                                          *)
(***************************************************************************)
CycleOrder ==
    << "RIOT.ReadRIOTMemory", "RIOT.Step",
       "TIA.StepVideoCycle", "videoCycleCallback",
       "TIA.StepVideoCycle", "videoCycleCallback",
       "TIA.ReadTIAMemory",
       "TIA.StepVideoCycle", "videoCycleCallback" >>

\* C1: every CPU cycle steps the RIOT once and then the TIA three times, the
\* video cycle callback following each TIA step; so at every cycle boundary
\* of a Step, and when it returns, the TIA has had three color clocks for
\* each CPU cycle counted, the cycles of a WSYNC stall among them.
C1_ThreeClocksPerCycle ==
    /\ vcs.cpuCycles > 0 => vcs.cycleLog = CycleOrder
    /\ vcs.riotSteps = vcs.cpuCycles
    /\ vcs.tiaClocks = 3 * vcs.cpuCycles
    /\ vcs.callbacks = vcs.tiaClocks
    /\ vcs.pc \in {"drain", "returned"} /\ ~vcs.instr.invalid
            => vcs.cpuCycles = vcs.instr.cycles + vcs.drained

C1_Witness ==
    /\ vcs.pc = "returned" /\ vcs.err = "nil"
    /\ vcs.drained > 0
    /\ vcs.cpuCycles = vcs.instr.cycles + vcs.drained
    /\ vcs.tiaClocks = 3 * vcs.cpuCycles

\* C2: a Step that returns without error returns with RDY high: the TIA's
\* last answer was "not waiting for WSYNC", and a Step that ran stall cycles
\* had RDY low before them.
C2_ReadyOnReturn ==
    /\ vcs.pc = "returned" /\ vcs.err = "nil"
            => vcs.RdyFlg /\ tia.rdy /\ ~tia.wsync
    /\ vcs.drained > 0 => vcs.lowClocks > 0

C2_Witness ==
    /\ vcs.pc = "returned" /\ vcs.err = "nil"
    /\ vcs.drained > 0 /\ vcs.lowClocks > 0
    /\ vcs.RdyFlg

C4_HsyncSequence ==
    /\ [](tia.hsync \in 0..(HsyncCounts - 1))
    /\ [][~Serviced(tia', "RSYNC")
            => tia'.hsync = IF Phi2(tia'.pclk)
                            THEN (tia.hsync + 1) % HsyncCounts
                            ELSE tia.hsync]_vars

C4_Witness ==
    /\ Wrapped(tia)
    /\ ~tia.obs.rsyncSeen
    /\ tia.obs.sinceWrap = 0
    /\ tia.obs.wrapped

\* C5: no RSYNC having been written, the HSYNC counter wraps to 0 once in
\* every 228 consecutive Steps: never 228 Steps without a wrap, and 228
\* Steps from one wrap to the next, whatever the phase at the start.
C5_WrapEvery228 ==
    ~tia.obs.rsyncSeen
        => /\ tia.obs.sinceWrap <= ScanlineClocks - 1
           /\ tia.obs.gap \in {0, ScanlineClocks}

C5_Witness ==
    /\ ~tia.obs.rsyncSeen
    /\ tia.obs.gap = ScanlineClocks
    /\ Wrapped(tia)

\* C10: Step answers nil when the television answers TVOutOfSpec, answers
\* any other error of the television as it is, and its boolean is the
\* negation of the WSYNC latch either way.
C10_StepResult ==
    tia.order # << >>
        => /\ tia.tvres \in {"nil", "TVOutOfSpec"} => tia.err = "nil"
           /\ tia.tvres \notin {"nil", "TVOutOfSpec"} => tia.err = tia.tvres
           /\ tia.rdy = ~tia.wsync

C10_Witness ==
    /\ tia.order # << >>
    /\ tia.tvres = "TVOutOfSpec"
    /\ tia.err = "nil"
    /\ tia.wsync /\ ~tia.rdy

(***************************************************************************)
(* Properties of the servicing of memory (SpecService).                    *)
(***************************************************************************)
Prefix(n) == SubSeq(HandlerOrder, 1, n)

\* C6: a Step reads the inbox at most once and only if asked to service
\* memory; the handlers see the data in the order UpdateTIA,
\* UpdatePlayfield, UpdateSpritePositioning, UpdateColor, UpdateSpriteHMOVE,
\* UpdateSpriteVariations, UpdateSpritePixels, Audio.UpdateRegisters, up to
\* and including the first that recognises the register, and none after it.
C6_ServiceOrder ==
    LET n == Len(tia.offered)
    IN  /\ tia.chipReads <= 1
        /\ tia.chipReads = 1 <=> tia.order # << >> /\ tia.smArg
        /\ n <= Len(HandlerOrder) /\ tia.offered = Prefix(n)
        /\ n > 0 <=> tia.chipReads = 1 /\ tia.data # NoData
        /\ \A i \in 1..(n - 1) : ~Recognises(tia.offered[i], tia.data.name)
        /\ n \in 1..(Len(HandlerOrder) - 1) => Recognises(tia.offered[n], tia.data.name)

C6_Witness ==
    /\ tia.chipReads = 1
    /\ tia.data.name = "HMP0"
    /\ tia.offered = Prefix(5)

(***************************************************************************)
(* Properties of the video (SpecVideo).                                    *)
(***************************************************************************)
StepOrder(t) ==
    << "A", "pclk", "delay" >> \o (IF Phi2(t.pclk) THEN << "hsync" >> ELSE << >>)
        \o << "B", "video", "hmove", "pixel", "C", "signal" >>

\* C7: the sub-steps of a Step run in the order phase clock, delay queue,
\* HSYNC counter (on Phi2), sprite tick, HMOVE counter, pixel resolution,
\* television signal; the sprites are ticked with HBLANK as the events due
\* in this clock have left it.
C7_SubStepOrder ==
    tia.order # << >>
        => /\ tia.order = StepOrder(tia)
           /\ tia.tick.visible = ~tia.hblank
           /\ tia.tick.isHmove = Phi2(tia.pclk)
           /\ "HRB" \in Ran(tia.fired) => tia.tick.visible
           /\ "RESET" \in Ran(tia.fired) => ~tia.tick.visible

C7_Witness ==
    /\ "HRB" \in Ran(tia.fired)
    /\ tia.tick.visible
    /\ tia.order = StepOrder(tia)

\* C8: a playfield write serviced by the Step of color clock T leaves the
\* playfield as it was through the Steps T .. T+4 and is in the playfield,
\* and in the pixel resolved, in the Step T+5.
C8_PlayfieldDelay ==
    /\ tia.obs.pfAge \in 0..4
            => /\ tia.pf = tia.obs.pfBefore
               /\ tia.sent.AltPixel = VideoPixel([pf |-> tia.obs.pfBefore]).debugColor
    /\ tia.obs.pfAge = 5
            => /\ tia.pf = tia.obs.pfWritten
               /\ "playfield" \in Ran(tia.fired)
               /\ tia.sent.AltPixel = VideoPixel([pf |-> tia.obs.pfWritten]).debugColor

C8_Witness ==
    /\ tia.obs.pfAge = 5
    /\ tia.obs.pfBefore = 0
    /\ tia.pf = 255
    /\ ~tia.hblank
    /\ tia.sent.Pixel = VideoPixel([pf |-> 255]).pixelColor

\* C9: the Pixel sent to the television is VideoBlack if HBLANK is on when
\* the pixel is resolved and the resolved colour if not; the AltPixel sent
\* is the resolved debug colour, HBLANK or not.
C9_PixelSignal ==
    tia.order # << >>
        => /\ tia.sent.Pixel = IF tia.hblank THEN VideoBlack
                               ELSE ColorSignal(VideoPixel(tia).pixelColor)
           /\ tia.sent.AltPixel = ColorSignal(VideoPixel(tia).debugColor)

C9_Witness ==
    /\ tia.order # << >>
    /\ tia.hblank
    /\ tia.pf = 255
    /\ tia.sent.Pixel = VideoBlack
    /\ tia.sent.AltPixel = VideoPixel(tia).debugColor

(***************************************************************************)
(* Properties of the HSYNC events and of the HMOVE latch and counter       *)
(* (SpecHmove, SpecTIA).                                                   *)
(***************************************************************************)
\* the Step ticked the HSYNC counter to n
Ticked(t, n) == "hsync" \in Ran(t.order) /\ t.hsync = n

\* the queue holds an event of this label and payload that has the whole
\* delay of 3 color clocks to run: it was scheduled after the tick of the
\* queue of this Step
Scheduled(t, label, payload) ==
    \E i \in 1..Len(t.Delay) :
        /\ t.Delay[i].label = label
        /\ t.Delay[i].payload = payload
        /\ t.Delay[i].remaining = 3

\* C11: the Step that ticks the HSYNC counter to 16 schedules the HBlank-off
\* event "HRB" with a delay of 3 if and only if hmoveLatch is clear; the
\* Step that ticks it to 18 schedules the HBlank-off event "LHRB" with the
\* same delay if and only if hmoveLatch is set; no other Step schedules
\* either.
C11_HBlankOff ==
    /\ Scheduled(tia, "HRB", "_futureResetHBlank")
            <=> Ticked(tia, 16) /\ ~tia.hmoveLatch
    /\ Scheduled(tia, "LHRB", "_futureResetHBlank")
            <=> Ticked(tia, 18) /\ tia.hmoveLatch

C11_Witness ==
    /\ Ticked(tia, 18)
    /\ tia.hmoveLatch
    /\ Scheduled(tia, "LHRB", "_futureResetHBlank")
    /\ tia.hblank

\* C39: in every scanline without RSYNC an HBlank-off event is scheduled
\* once or twice, and twice only if hmoveLatch was clear at the tick to 16
\* and set at the tick to 18: no scanline ends with none scheduled.
C39_HBlankOffPerScanline ==
    (tia.obs.line.ended /\ ~tia.obs.line.rsync)
        => /\ tia.obs.line.off \in {1, 2}
           /\ tia.obs.line.off = 2
                => ~tia.obs.line.latch16 /\ tia.obs.line.latch18

\* a scanline that ended with two HBlank-off events scheduled
C39_Witness ==
    /\ tia.obs.line.ended /\ ~tia.obs.line.rsync
    /\ tia.obs.line.off = 2
    /\ ~tia.obs.line.latch16 /\ tia.obs.line.latch18

\* C12: the Step that wraps the HSYNC counter from 57 to 0 leaves hmoveLatch
\* clear; hmoveLatch is set only if an HMOVE was serviced since the last
\* wrap.
C12_LatchClearedOnWrap ==
    /\ Wrapped(tia) => ~tia.hmoveLatch
    /\ tia.hmoveLatch => tia.obs.hmoveSince

C12_Witness ==
    /\ Wrapped(tia)
    /\ tia.obs.latchBefore
    /\ ~tia.hmoveLatch

\* C14: hmoveCt is changed only by a Step on Phi2 (or by the HMOVE that
\* loads it); such a Step takes one from it unless it is 0xff; loaded with
\* 15 it counts down to 0, then to 0xff, and stays there.
C14_HmoveCountdown ==
    /\ [](tia.hmoveCt \in 0..15 \cup {255})
    /\ [][~Serviced(tia', "HMOVE")
            => tia'.hmoveCt = IF Phi2(tia'.pclk) /\ tia.hmoveCt # 255
                              THEN (tia.hmoveCt + 255) % 256
                              ELSE tia.hmoveCt]_vars

C14_Witness ==
    /\ tia.obs.hmoveSince
    /\ tia.hmoveCt = 255
    /\ Phi2(tia.pclk)
    /\ tia.tick.hmoveCt = 255

ResetWord(c) == CartRead(c, 65532) + 256 * CartRead(c, 65533)

\* C15: after AttachCartridge has returned nil, and after Reset has returned
\* nil with a cartridge attached, the CPU has been reset and PC is the word
\* at $FFFC/$FFFD of the cartridge; an AttachCartridge whose attach failed
\* has not reset the CPU and returns the error of the attach.
C15_ResetVector ==
    /\ mc.last.op = "AttachCartridge" /\ mc.last.err = "nil"
            => /\ mc.last.attached /\ mc.cart # NoCart
               /\ mc.last.cpuReset
               /\ mc.PC = ResetWord(mc.cart)
    /\ mc.last.op = "Reset" /\ mc.last.err = "nil" /\ mc.cart # NoCart
            => /\ mc.last.cpuReset
               /\ mc.PC = ResetWord(mc.cart)
    /\ mc.last.op = "AttachCartridge" /\ ~mc.last.attached
            => /\ ~mc.last.cpuReset
               /\ mc.last.err = "CartridgeFileError"
               /\ mc.PC = mc.last.pcBefore

C15_Witness ==
    /\ mc.last.op = "AttachCartridge" /\ mc.last.err = "nil"
    /\ mc.cart = CartB
    /\ mc.PC = 63488
    /\ mc.last.pcBefore = 61444

\* C16 (as the instruction table has it): LDA #$42 and STA $80 executed
\* from reset consume 2 + 3 = 5 CPU cycles in all, and leave $42 in A and
\* in RAM at $80.
C16_TwoInstructions ==
    mc.cart = CartA /\ mc.fromReset /\ mc.n = 2 /\ vcs.pc = "returned"
        => /\ vcs.err = "nil"
           /\ mc.total + vcs.cpuCycles = 5
           /\ vcs.cpuCycles = 3 /\ vcs.drained = 0
           /\ mc.A = 66 /\ mc.ram80 = 66
           /\ mc.PC = 61444

C16_Witness ==
    /\ mc.cart = CartA /\ mc.fromReset /\ mc.n = 2 /\ vcs.pc = "returned"
    /\ mc.total = 2 /\ vcs.cpuCycles = 3
    /\ mc.A = 66 /\ mc.ram80 = 66

\* C16 as stated: the two instructions consume 3 + 3 = 6 CPU cycles.
C16_SixCycles ==
    mc.cart = CartA /\ mc.fromReset /\ mc.n = 2 /\ vcs.pc = "returned"
        => mc.total + vcs.cpuCycles = 6

(***************************************************************************)
(* Properties of the debugger's memory (SpecDebugMem).                     *)
(***************************************************************************)
\* C17: two peeks of the same address argument with nothing between them
\* resolve to the same address and return the same data, and a peek leaves
\* memory as it was.
C17_PeekDeterministic ==
    /\ dbg.cur.op = "peek" => dbg.ram = dbg.ramBefore
    /\ dbg.cur.op = "peek" /\ dbg.prev.op = "peek" /\ dbg.cur.arg = dbg.prev.arg
            => /\ dbg.cur.ok = dbg.prev.ok
               /\ dbg.cur.mappedAddress = dbg.prev.mappedAddress
               /\ dbg.cur.data = dbg.prev.data

\* the symbol of the address argument is the name, in some case, of one
\* address of the table only
Unambiguous(table, address) ==
    address.kind = "string"
        => Cardinality({a \in DOMAIN table : ToUpper(table[a]) = ToUpper(address.s)}) <= 1

C20_GroundedReadsZero ==
    "ground" \in ctl.last.calls
        => /\ ctl.paddle.charge = 0
           /\ ctl.mem.tia[ctl.paddle.addr] = 0

\* C21: Handle(KeyboardDown, r) takes every rune r of '0'..'9', '*' and '#'
\* and stores it as the key pressed, and refuses every other value with
\* BadInputEventType.
C21_KeypadRunes ==
    ctl.last.op = "KeyboardDown"
        => IF /\ ctl.event.type = "rune"
              /\ ctl.event.rune \in {"0", "1", "2", "3", "4", "5", "6", "7", "8",
                                     "9", "*", "#"}
           THEN ctl.last.err = "nil" /\ ctl.keyboard.key = ctl.event.rune
           ELSE ctl.last.err = "BadInputEventType"

\* C37: after Handle(direction, true) the direction's bit of the stick's
\* axis is 0, pressed, and after Handle(direction, false) it is 1, released,
\* whatever came before: a direction pressed twice is pressed.
C37_DirectionBits ==
    (ctl.last.op \in DOMAIN DirectionBit /\ ctl.last.err # "BadInputEventType")
        => And8(ctl.stick.axis, DirectionBit[ctl.last.op])
                = IF ctl.last.value THEN 0 ELSE DirectionBit[ctl.last.op]

\* C38: when Handle returns BadInputEventType, InputDeviceUnplugged or
\* UnknownInputEvent, the controller, the memory of the RIOT and of the TIA
\* are as they were and the recorder was not given the event.
C38_ErrorLeavesState ==
    [][ctl'.last.err \in {"BadInputEventType", "InputDeviceUnplugged",
                          "UnknownInputEvent"}
        => /\ ctl'.stick = ctl.stick /\ ctl'.paddle = ctl.paddle
           /\ ctl'.keyboard = ctl.keyboard /\ ctl'.control = ctl.control
           /\ ctl'.mem = ctl.mem
           /\ ctl'.recorder = ctl.recorder]_vars

\* a value of the wrong type refused by a controller whose stick is held
\* left and whose recorder has an event
C38_Witness ==
    /\ ctl.last.err = "BadInputEventType"
    /\ ctl.last.op = "Right"
    /\ ctl.stick.axis = 176
    /\ ctl.recorder.attached /\ ctl.recorder.count = 1

(***************************************************************************)
(* Properties of the lazy values (SpecLazy).                               *)
(***************************************************************************)
\* C22: the VCS is read only by the debugger's thread, in the function that
\* update() pushed, and what the GUI holds of each hand controller is
\* either nothing or a value that a function run earlier stored.
C22_LazyControllers ==
    /\ lz.readers \subseteq {"core"}
    /\ lz.HandController0 \in {0} \cup lz.stored0
    /\ lz.HandController1 \in {0} \cup lz.stored1
    /\ lz.stored0 = {} => lz.HandController0 = 0
    /\ lz.stored0 \cup lz.stored1 \subseteq 1..lz.VCS.HandController0

\* the GUI holds a stale value of one controller and nothing of the other
C22_Witness ==
    /\ lz.gui = "idle"
    /\ lz.HandController0 = 1
    /\ lz.HandController1 = 0
    /\ lz.VCS.HandController0 = 2
    /\ lz.readers = {"core"}

(***************************************************************************)
(* Properties of Debugger.Start (SpecStart).                               *)
(***************************************************************************)
\* C23: for as long as the debugger is running, the ctrl-c goroutine is
\* there to service the interrupts, and no interrupt has gone unserviced.
C23_InterruptsServiced ==
    (dg.main \in {"loop", "prompt", "step"} /\ dg.running)
        => dg.handler # "done" /\ dg.dropped = 0

\* C33: while the debugger is running, every iteration of the input loop
\* prompts the user or advances the emulation by one vcs.Step, whatever the
\* input was: no iteration does neither.
C33_PromptOrStep == dg.idle = 0

(***************************************************************************)
(* Properties of the input loop (SpecInputLoop).                           *)
(***************************************************************************)
\* C24: a UserInterrupt at the prompt with no script being recorded leads to
\* the confirmation prompt, and a UserInterrupt there executes EXIT: the
\* debugger stops running and the loop returns nil; with a script being
\* recorded a UserInterrupt at the prompt ends the recording and the loop
\* goes on to its next iteration with the debugger running.
C24_UserInterrupt ==
    [][ /\ (il.pc = "prompt" /\ il'.last.event = "UserInterrupt" /\ ~il.recording)
            => il'.pc = "confirm" /\ il'.running /\ il'.ret = ""
        /\ (il.pc = "confirm" /\ il'.last.event = "UserInterrupt")
            => ~il'.running /\ il'.pc = "returned" /\ il'.ret = "nil"
        /\ (il.pc = "prompt" /\ il'.last.event = "UserInterrupt" /\ il.recording)
            => ~il'.recording /\ il'.running /\ il'.pc = "top" /\ il'.ret = "" ]_vars

\* the second interrupt has ended the debugger
C24_Witness ==
    /\ il.last.at = "confirm"
    /\ il.last.event = "UserInterrupt"
    /\ il.pc = "returned"
    /\ ~il.running

\* C25: when the input source reports ScriptEnd, inputLoop returns nil, the
\* debugger is running as it was, and nothing has been printed.
C25_ScriptEndSilent ==
    il.last.event = "ScriptEnd"
        => /\ il.pc = "returned" /\ il.ret = "nil"
           /\ il.running = il.last.runningBefore
           /\ il.last.printed = {}

C28_PatchedIffWritten ==
    pt.done => (pt.patched <=> Len(pt.writes) > 0)

\* an error after a byte was written
C28_Witness ==
    /\ pt.done
    /\ pt.err = "PatchError"
    /\ pt.patched
    /\ pt.writes = <<<<3, 1>>>>

\* C29: a poke line with whitespace before ADDR, around the colon, between
\* the values or at the end of the line writes the same bytes to the same
\* offsets as the line without that whitespace.
C29_WhitespaceInsignificant ==
    pt.done => pt.writes = pt.plainWrites

C31_Cycle ==
    LET n == Len(tc.session.matches)
        k == tc.session.calls
        tokens == TokeniseInput(tc.result)
    IN  (k >= 1 /\ n >= 1)
            => /\ tc.matches = tc.session.matches
               /\ (k < MaxTabs)
                    => /\ tokens # <<>>
                       /\ tokens[Len(tokens)] = tc.session.matches[((k - 1) % n) + 1]
                       /\ tc.result[Len(tc.result)] = " "
               /\ k = n + 1 => tc.result = tc.session.first

\* three matches, and the fourth result is the first again
C31_Witness ==
    /\ Len(tc.session.matches) = 3
    /\ tc.session.calls = 4
    /\ tc.result = tc.session.first
    /\ tc.result = <<"S", "C", "R", "I", "P", "T", " ">>

\* C32: the emulation never advances while the pause is set: no vcs.Step is
\* begun, and no video cycle of a Step already begun is run, with the pause
\* that the halt state set still in force.
C32_NoAdvanceWhilePaused ==
    /\ il.pc = "step" => ~il.paused
    /\ il.last.at = "cycle" => il.last.event # "paused"

(***************************************************************************)
(* Properties of parseInput with script recording (SpecParseInput).        *)
(***************************************************************************)
\* a command that asks for the emulation to continue; the empty command
\* stands for the default step command when the input is interactive
Requests(command, interactive) ==
    \/ command \in {"STEP", "RUN", "STEP VIDEO"}
    \/ command = "" /\ interactive

\* C34: parseInput returns the step status of the whole input: true if at
\* least one command asked for the emulation to continue and none failed;
\* false as soon as a command fails, the commands after it not executed and
\* the failed command not in the script being recorded.
C34_StepStatus ==
    (pi.done /\ pi.commands[1] # "#")
        => LET cs == pi.commands
               fails == {i \in 1..Len(cs) : parseCommandResult(cs[i]) = "error"}
               f == CHOOSE i \in fails : \A j \in fails : i <= j
           IN  IF fails # {}
               THEN /\ ~pi.step
                    /\ Len(pi.executed) <= f
                    /\ pi.scribe.pending # cs[f]
                    /\ \A k \in 1..Len(pi.scribe.lines) : pi.scribe.lines[k] # cs[f]
               ELSE pi.step = \E i \in 1..Len(cs) : Requests(cs[i], pi.interactive)

(***************************************************************************)
(* Properties of parseCommand (SpecCommands).                              *)
(***************************************************************************)
\* C35: while a script is being recorded a command that matches the
\* script-unsafe template is rejected with CommandError and not executed,
\* and the script never holds it, nor HELP, QUIT, SCRIPT RECORD or SCRIPT END.
C35_ScriptUnsafe ==
    LET held == {cm.scribe.lines[k] : k \in 1..Len(cm.scribe.lines)}
                    \cup {cm.scribe.pending}
    IN  /\ (cm.last.active /\ ScriptUnsafe(cm.last.cmd))
            => cm.last.err = "CommandError" /\ ~cm.last.executed
        /\ held \cap {"RUN", "HELP", "QUIT", "SCRIPT RECORD", "SCRIPT END"} = {}

\* C36: ONHALT OFF makes the active sequence empty and leaves the stored one
\* as it is, and ONHALT ON makes the active sequence the one that ONHALT
\* <sequence> set last, with its commas turned into semicolons.
C36_OnHaltRestores ==
    [][(cm'.last.cmd.name = "ONHALT" /\ cm'.last.executed)
        => /\ cm'.last.cmd.args = <<"OFF">>
                => /\ cm'.commandOnHalt = <<>>
                   /\ cm'.commandOnHaltStored = cm.commandOnHaltStored
           /\ cm'.last.cmd.args = <<"ON">>
                => /\ cm'.commandOnHalt = cm.lastSet
                   /\ cm'.commandOnHaltStored = cm.lastSet
           /\ cm'.last.cmd.args \in Sequences
                => /\ cm'.commandOnHalt = ReplaceCommas(cm'.last.cmd.args)
                   /\ cm'.lastSet = cm'.commandOnHalt]_vars

\* ONHALT CPU,TIA then ONHALT OFF then ONHALT ON: the sequence is back
C36_Witness ==
    /\ cm.last.cmd = [name |-> "ONHALT", args |-> <<"ON">>]
    /\ cm.last.executed
    /\ cm.last.onHalt = <<>>
    /\ cm.commandOnHalt = <<"CPU", ";", "TIA">>
    /\ cm.commandOnHaltStored = <<"CPU", ";", "TIA">>

\* C40: a SetPixel that returns no error writes at an offset past the bytes
\* that hold the previous digest, and when NewFrame has hashed frameData the
\* colour of every pixel that SetPixel has set is at the pixel's offset.
C40_PixelsHashed ==
    /\ (sd.last.at = "SetPixel" /\ sd.last.err = "nil")
        => sd.last.offset >= Len(sd.digest)
    /\ (sd.last.at = "NewFrame" /\ sd.last.err = "nil")
        => \A p \in sd.set :
               \A k \in 1..3 : sd.frameData[p[1] + k] = p[2][k]

====
